---- MODULE Spec2Model ----
(***************************************************************************)
(* The answer-extraction and scoring pipeline of the rebus benchmark       *)
(* (src/experiments/evaluate.py), its extraction analysis                  *)
(* (src/debug_results.py), the script that compares extracted answers     *)
(* with the ground truth (src/test/debug_results.py) and the retry loop of *)
(* the API client (src/models/base_client.py).  A Python str is a          *)
(* sequence of one-character strings; every regular expression of the      *)
(* source is an operator that scans the sequence the way re.sub /          *)
(* re.search / re.findall scan it.                                         *)
(***************************************************************************)
EXTENDS Integers, Sequences, FiniteSets, TLC

VARIABLES pc, text, out, again, ground_truth, prediction, f1,
          results, use_f1, use_extraction, metrics, debug_results, analysis,
          candidate_list, exact_total, partial_total, helpers_defined,
          sample_index, client_type, attempt, backoff, calls, slept

vars == <<pc, text, out, again, ground_truth, prediction, f1,
          results, use_f1, use_extraction, metrics, debug_results, analysis,
          candidate_list, exact_total, partial_total, helpers_defined,
          sample_index, client_type, attempt, backoff, calls, slept>>

(* The value of a variable an operation has not written yet. *)
None == "None"

----------------------------------------------------------------------------
(* Characters.  A character is a TLA+ string of one character, and the     *)
(* alphabet is the one such a string can hold: U+0000 to U+00FF, with the  *)
(* classes Python gives these characters (str.isspace and \s, str.isalnum  *)
(* and \w, str.lower, str.upper).  The grave accent cannot stand in a TLA+ *)
(* string literal and is written as a name, as are the two capitals that   *)
(* str.upper makes of a Latin-1 letter and that lie beyond U+00FF.         *)

Backtick == "GRAVE"

CapitalMu == "GREEK CAPITAL LETTER MU"

CapitalYDiaeresis == "LATIN CAPITAL LETTER Y WITH DIAERESIS"

(* the capital letters and their str.lower() *)
LowerOf ==
    ("A" :> "a") @@ ("B" :> "b") @@ ("C" :> "c") @@ ("D" :> "d") @@ ("E" :> "e") @@ ("F" :> "f")
    @@ ("G" :> "g") @@ ("H" :> "h") @@ ("I" :> "i") @@ ("J" :> "j") @@ ("K" :> "k") @@ ("L" :> "l")
    @@ ("M" :> "m") @@ ("N" :> "n") @@ ("O" :> "o") @@ ("P" :> "p") @@ ("Q" :> "q") @@ ("R" :> "r")
    @@ ("S" :> "s") @@ ("T" :> "t") @@ ("U" :> "u") @@ ("V" :> "v") @@ ("W" :> "w") @@ ("X" :> "x")
    @@ ("Y" :> "y") @@ ("Z" :> "z") @@ ("À" :> "à") @@ ("Á" :> "á") @@ ("Â" :> "â") @@ ("Ã" :> "ã")
    @@ ("Ä" :> "ä") @@ ("Å" :> "å") @@ ("Æ" :> "æ") @@ ("Ç" :> "ç") @@ ("È" :> "è") @@ ("É" :> "é")
    @@ ("Ê" :> "ê") @@ ("Ë" :> "ë") @@ ("Ì" :> "ì") @@ ("Í" :> "í") @@ ("Î" :> "î") @@ ("Ï" :> "ï")
    @@ ("Ð" :> "ð") @@ ("Ñ" :> "ñ") @@ ("Ò" :> "ò") @@ ("Ó" :> "ó") @@ ("Ô" :> "ô") @@ ("Õ" :> "õ")
    @@ ("Ö" :> "ö") @@ ("Ø" :> "ø") @@ ("Ù" :> "ù") @@ ("Ú" :> "ú") @@ ("Û" :> "û") @@ ("Ü" :> "ü")
    @@ ("Ý" :> "ý") @@ ("Þ" :> "þ")

(* the small letters: str.islower() *)
LowerLetters ==
    {"a", "b", "c", "d", "e", "f", "g", "h", "i", "j", "k", "l", "m",
     "n", "o", "p", "q", "r", "s", "t", "u", "v", "w", "x", "y", "z",
     "ª", "µ", "º", "ß", "à", "á", "â", "ã", "ä", "å", "æ", "ç", "è",
     "é", "ê", "ë", "ì", "í", "î", "ï", "ð", "ñ", "ò", "ó", "ô", "õ",
     "ö", "ø", "ù", "ú", "û", "ü", "ý", "þ", "ÿ"}

(* the digits and the other numeric characters: alphanumeric, no letter *)
Digits ==
    {"0", "1", "2", "3", "4", "5", "6", "7", "8", "9", "²", "³", "¹", "¼", "½", "¾"}

(* str.isspace(), and \s of re *)
Whitespace ==
    {" ", "\n", "\t", "\r", "\f", "", "", "", "", "", "", " "}

(* the no-break space, '\xa0' *)
NoBreakSpace == " "

(* str.lower() on one character *)
Lower(c) == IF c \in DOMAIN LowerOf THEN LowerOf[c] ELSE c

(* \s *)
IsSpace(c) == c \in Whitespace

(* \w *)
IsWord(c) == c \in LowerLetters \/ c \in DOMAIN LowerOf \/ c \in Digits \/ c = "_"

(* [^\w\s] *)
IsPunct(c) == ~IsWord(c) /\ ~IsSpace(c)

----------------------------------------------------------------------------
(* str methods *)

lower(s) == IF s = <<>> THEN <<>> ELSE [i \in 1..Len(s) |-> Lower(s[i])]

(* min(S) and max(S) of a non-empty set of integers *)
Min(S) == CHOOSE x \in S : \A y \in S : x <= y

Max(S) == CHOOSE x \in S : \A y \in S : x >= y

(* the first index >= i of s that holds a character of cs, Len(s)+1 if none *)
SkipTo(s, i, cs) ==
    LET at == {k \in i..Len(s) : s[k] \in cs}
    IN  IF at = {} THEN Len(s) + 1 ELSE Min(at)

(* the first index >= i of s that holds no whitespace, Len(s)+1 if none *)
SkipSpace(s, i) ==
    LET at == {k \in i..Len(s) : ~IsSpace(s[k])}
    IN  IF at = {} THEN Len(s) + 1 ELSE Min(at)

(* the last index <= i of s that holds no whitespace, 0 if none *)
SkipSpaceBack(s, i) ==
    LET at == {k \in 1..i : ~IsSpace(s[k])}
    IN  IF at = {} THEN 0 ELSE Max(at)

(* the first index >= i of s that holds whitespace, Len(s)+1 if none *)
SkipWord(s, i) == SkipTo(s, i, Whitespace)

RECURSIVE ConcatRange(_, _, _)
(* pieces[lo] \o ... \o pieces[hi], halving the range *)
ConcatRange(pieces, lo, hi) ==
    IF lo > hi THEN <<>>
    ELSE IF lo = hi THEN pieces[lo]
    ELSE LET mid == (lo + hi) \div 2
         IN  ConcatRange(pieces, lo, mid) \o ConcatRange(pieces, mid + 1, hi)

(* ''.join(pieces) *)
Concat(pieces) == ConcatRange(pieces, 1, Len(pieces))

(* <<1, ..., n>> *)
Indices(n) == IF n < 1 THEN <<>> ELSE [i \in 1..n |-> i]

(* s.strip() *)
strip(s) ==
    LET lo == SkipSpace(s, 1)
        hi == SkipSpaceBack(s, Len(s))
    IN  IF lo > hi THEN <<>> ELSE SubSeq(s, lo, hi)

(* s[i:] with i counted from 1 *)
From(s, i) == IF i > Len(s) THEN <<>> ELSE SubSeq(s, i, Len(s))

(* p occurs in s at index i *)
MatchAt(s, i, p) ==
    /\ i >= 1
    /\ i + Len(p) - 1 <= Len(s)
    /\ \A k \in 1..Len(p) : s[i + k - 1] = p[k]

(* the same under re.IGNORECASE, p being lower case *)
MatchAtCI(s, i, p) ==
    /\ i >= 1
    /\ i + Len(p) - 1 <= Len(s)
    /\ \A k \in 1..Len(p) : Lower(s[i + k - 1]) = p[k]

(* s.startswith(p), s.endswith(p), p in s *)
startswith(s, p) == MatchAt(s, 1, p)

endswith(s, p) == MatchAt(s, Len(s) - Len(p) + 1, p)

contains(s, p) == \E i \in 1..(Len(s) - Len(p) + 1) : MatchAt(s, i, p)

(* s.split(): the maximal runs of non-whitespace *)
split(s) ==
    LET Starts(i) == ~IsSpace(s[i]) /\ (i = 1 \/ IsSpace(s[i - 1]))
        starts == SelectSeq(Indices(Len(s)), Starts)
    IN  IF starts = <<>> THEN <<>>
        ELSE [k \in 1..Len(starts) |->
                 SubSeq(s, starts[k], SkipWord(s, starts[k]) - 1)]

(* sep.join(ws) *)
join(sep, ws) ==
    IF ws = <<>> THEN <<>>
    ELSE Concat([k \in 1..(2 * Len(ws) - 1) |->
                    IF k % 2 = 1 THEN ws[(k + 1) \div 2] ELSE sep])

----------------------------------------------------------------------------
(* normalize_idiom *)

W_and == <<"a", "n", "d">>

W_u == <<"u">>

W_r == <<"r">>

R_amp == <<"&">>

R_you == <<"y", "o", "u">>

R_are == <<"a", "r", "e">>

Articles == << <<"a">>, <<"a", "n">>, <<"t", "h", "e">> >>

(* re.sub(r'\s+', ' ', s): each run of whitespace leaves one space *)
CollapseSpace(s) ==
    IF s = <<>> THEN <<>>
    ELSE Concat([i \in 1..Len(s) |->
                    IF ~IsSpace(s[i]) THEN <<s[i]>>
                    ELSE IF i = 1 \/ ~IsSpace(s[i - 1]) THEN <<" ">>
                    ELSE <<>>])

SkipPunct(s, i) ==
    LET at == {k \in i..Len(s) : ~IsPunct(s[k])}
    IN  IF at = {} THEN Len(s) + 1 ELSE Min(at)

SkipPunctBack(s, i) ==
    LET at == {k \in 1..i : ~IsPunct(s[k])}
    IN  IF at = {} THEN 0 ELSE Max(at)

(* re.sub(r'^[^\w\s]+|[^\w\s]+$', '', s): the leading run and the trailing *)
(* run of punctuation go; s holds no line break here                       *)
StripPunct(s) ==
    LET lo == SkipPunct(s, 1)
        hi == SkipPunctBack(s, Len(s))
    IN  IF lo > hi THEN <<>> ELSE SubSeq(s, lo, hi)

(* \b between s[i-1] and s[i] *)
WordBoundary(s, i) ==
    (i > 1 /\ i - 1 <= Len(s) /\ IsWord(s[i - 1])) # (i >= 1 /\ i <= Len(s) /\ IsWord(s[i]))

(* re.sub(r'\bw\b', rep, s): w is made of word characters, so two matches *)
(* never overlap                                                           *)
SubWord(s, w, rep) ==
    LET Hit(i) == MatchAt(s, i, w) /\ WordBoundary(s, i) /\ WordBoundary(s, i + Len(w))
    IN  IF s = <<>> THEN <<>>
        ELSE Concat([i \in 1..Len(s) |->
                        IF Hit(i) THEN rep
                        ELSE IF \E m \in (i - Len(w) + 1)..(i - 1) : m >= 1 /\ Hit(m)
                             THEN <<>>
                        ELSE <<s[i]>>])

(* re.sub(r'\s*d\s*', ' ', s), d being "-" or "_": a match holds one d and *)
(* the whitespace around it, so every d leaves one space and the           *)
(* whitespace that touches a d goes                                        *)
SubSeparator(s, d) ==
    LET Touches(i) ==
            \/ LET k == SkipSpace(s, i) IN k <= Len(s) /\ s[k] = d
            \/ LET k == SkipSpaceBack(s, i) IN k >= 1 /\ s[k] = d
    IN  IF s = <<>> THEN <<>>
        ELSE Concat([i \in 1..Len(s) |->
                        IF s[i] = d THEN <<" ">>
                        ELSE IF IsSpace(s[i]) /\ Touches(i) THEN <<>>
                        ELSE <<s[i]>>])

RECURSIVE StripEveryArticle(_)
(* the leading articles stripped one after the other until none is left *)
StripEveryArticle(s) ==
    LET hit == {k \in 1..Len(Articles) :
                   /\ MatchAt(s, 1, Articles[k])
                   /\ Len(Articles[k]) < Len(s)
                   /\ IsSpace(s[Len(Articles[k]) + 1])}
    IN  IF hit = {} THEN s
        ELSE LET k == CHOOSE x \in hit : \A y \in hit : x <= y
             IN  StripEveryArticle(From(s, SkipSpace(s, Len(Articles[k]) + 1)))

(* re.sub(r'^(a|an|the)\s+', '', s) *)
StripArticle(s) ==
    LET hit == {k \in 1..Len(Articles) :
                   /\ MatchAt(s, 1, Articles[k])
                   /\ Len(Articles[k]) < Len(s)
                   /\ IsSpace(s[Len(Articles[k]) + 1])}
    IN  IF hit = {} THEN s
        ELSE LET k == CHOOSE x \in hit : \A y \in hit : x <= y
             IN  From(s, SkipSpace(s, Len(Articles[k]) + 1))

normalize_idiom(idiom) ==
    IF idiom = <<>> THEN <<>>
    ELSE LET n1 == strip(lower(idiom))
             n2 == CollapseSpace(n1)
             n3 == StripPunct(n2)
             n4 == SubWord(n3, W_and, R_amp)
             n5 == SubWord(n4, W_u, R_you)
             n6 == SubWord(n5, W_r, R_are)
             n7 == SubSeparator(n6, "-")
             n8 == SubSeparator(n7, "_")
             n9 == StripArticle(n8)
         IN  strip(n9)

----------------------------------------------------------------------------
(* clean_extracted_idiom *)

OpenBraces == <<"{", "{", "{">>

CloseBraces == <<"}", "}", "}">>

(* prefixes_to_remove[0] *)
PrefixIdiomIs ==
    << <<"t", "h", "e", " ", "i", "d", "i", "o", "m", " ", "i", "s">>,
       <<"i", "d", "i", "o", "m", " ", "i", "s">>,
       <<"a", "n", "s", "w", "e", "r", " ", "i", "s">>,
       <<"s", "o", "l", "u", "t", "i", "o", "n", " ", "i", "s">>,
       <<"t", "h", "i", "s", " ", "i", "s">>,
       <<"i", "t", " ", "i", "s">> >>

(* prefixes_to_remove[1] *)
PrefixIThink ==
    << <<"i", " ", "t", "h", "i", "n", "k">>,
       <<"i", " ", "b", "e", "l", "i", "e", "v", "e">>,
       <<"t", "h", "i", "s", " ", "l", "o", "o", "k", "s", " ", "l", "i", "k", "e">>,
       <<"t", "h", "i", "s", " ", "a", "p", "p", "e", "a", "r", "s", " ", "t", "o", " ", "b", "e">> >>

(* prefixes_to_remove[2] *)
PrefixTheAnswerIs ==
    << <<"t", "h", "e", " ", "a", "n", "s", "w", "e", "r", " ", "i", "s">>,
       <<"t", "h", "e", " ", "s", "o", "l", "u", "t", "i", "o", "n", " ", "i", "s">> >>

(* prefixes_to_remove[3], its subject *)
PrefixThisIdiom ==
    << <<"t", "h", "i", "s", " ", "i", "d", "i", "o", "m">>,
       <<"t", "h", "i", "s", " ", "r", "e", "b", "u", "s">>,
       <<"t", "h", "i", "s", " ", "p", "u", "z", "z", "l", "e">> >>

(* prefixes_to_remove[3], its verb *)
PrefixVerb ==
    << <<"r", "e", "p", "r", "e", "s", "e", "n", "t", "s">>,
       <<"m", "e", "a", "n", "s">>,
       <<"s", "h", "o", "w", "s">>,
       <<"i", "s">> >>

(* suffixes_to_remove[0] *)
SuffixIdiom ==
    << <<"i", "d", "i", "o", "m">>,
       <<"r", "e", "b", "u", "s">>,
       <<"p", "u", "z", "z", "l", "e">>,
       <<"p", "h", "r", "a", "s", "e">> >>

(* suffixes_to_remove[1] *)
SuffixIsTheAnswer ==
    << <<"i", "s", " ", "t", "h", "e", " ", "a", "n", "s", "w", "e", "r">>,
       <<"i", "s", " ", "t", "h", "e", " ", "s", "o", "l", "u", "t", "i", "o", "n">> >>

(* suffixes_to_remove[2] *)
SuffixPunct ==
    << <<".">>,
       <<"!">>,
       <<"?">> >>

(* the length of the first alternative of alts that matches s at i under   *)
(* re.IGNORECASE, 0 when none does                                         *)
AltAt(s, i, alts) ==
    LET hit == {k \in 1..Len(alts) : MatchAtCI(s, i, alts[k])}
    IN  IF hit = {} THEN 0
        ELSE Len(alts[CHOOSE x \in hit : \A y \in hit : x <= y])

(* the index after [:.]?\s* matched greedily at i *)
AfterColonSpace(s, i) ==
    SkipSpace(s, IF i <= Len(s) /\ s[i] \in {":", "."} THEN i + 1 ELSE i)

(* re.sub(r'^(?:alts)[:.]?\s*', '', s, flags=re.IGNORECASE) *)
RemovePrefix(s, alts) ==
    LET n == AltAt(s, 1, alts)
    IN  IF n = 0 THEN s ELSE From(s, AfterColonSpace(s, n + 1))

(* re.sub(r'^(?:subjects)[:.]?\s*(?:verbs)[:.]?\s*', '', s, re.IGNORECASE) *)
RemovePrefix2(s, subjects, verbs) ==
    LET n == AltAt(s, 1, subjects)
        j == AfterColonSpace(s, n + 1)
        m == AltAt(s, j, verbs)
    IN  IF n = 0 \/ m = 0 THEN s ELSE From(s, AfterColonSpace(s, j + m))

(* re.sub(r'\s*(?:alts)$', '', s, flags=re.IGNORECASE); $ without          *)
(* re.MULTILINE is the end of s or the place before a line break that ends *)
(* s, and that line break is kept                                          *)
RemoveSuffix(s, alts) ==
    LET end == IF Len(s) > 0 /\ s[Len(s)] = "\n" THEN Len(s) - 1 ELSE Len(s)
        hit == {k \in 1..Len(alts) :
                   MatchAtCI(s, end - Len(alts[k]) + 1, alts[k])}
    IN  IF hit = {} THEN s
        ELSE LET k  == CHOOSE x \in hit : \A y \in hit : x <= y
                 hi == SkipSpaceBack(s, end - Len(alts[k]))
             IN  SubSeq(s, 1, hi) \o SubSeq(s, end + 1, Len(s))

(* cleaned[3:-3] and cleaned[1:-1] *)
Inner(s, n) == IF n + 1 > Len(s) - n THEN <<>> ELSE SubSeq(s, n + 1, Len(s) - n)

(* if cleaned.startswith('{{{') and cleaned.endswith('}}}'):               *)
(*     cleaned = cleaned[3:-3].strip()                                     *)
StripBraces(cleaned) ==
    IF startswith(cleaned, OpenBraces) /\ endswith(cleaned, CloseBraces)
    THEN strip(Inner(cleaned, 3)) ELSE cleaned

(* if cleaned is wrapped in two '"' or in two "'": cleaned = cleaned[1:-1] *)
StripQuotes(cleaned) ==
    IF \/ startswith(cleaned, <<"\"">>) /\ endswith(cleaned, <<"\"">>)
       \/ startswith(cleaned, <<"'">>) /\ endswith(cleaned, <<"'">>)
    THEN Inner(cleaned, 1) ELSE cleaned

clean_extracted_idiom(t) ==
    IF t = <<>> THEN <<>>
    ELSE LET c0 == strip(t)
             c1 == StripBraces(c0)
             c2 == RemovePrefix(c1, PrefixIdiomIs)
             c3 == RemovePrefix(c2, PrefixIThink)
             c4 == RemovePrefix(c3, PrefixTheAnswerIs)
             c5 == RemovePrefix2(c4, PrefixThisIdiom, PrefixVerb)
             c6 == RemoveSuffix(c5, SuffixIdiom)
             c7 == RemoveSuffix(c6, SuffixIsTheAnswer)
             c8 == RemoveSuffix(c7, SuffixPunct)
             c9 == strip(c8)
             c10 == StripQuotes(c9)
         IN  strip(c10)

----------------------------------------------------------------------------
(* is_description_text, is_likely_idiom *)

description_indicators ==
    << <<"t", "h", "i", "s", " ", "i", "d", "i", "o", "m">>,
       <<"t", "h", "i", "s", " ", "r", "e", "b", "u", "s">>,
       <<"t", "h", "i", "s", " ", "p", "u", "z", "z", "l", "e">>,
       <<"t", "h", "i", "s", " ", "i", "m", "a", "g", "e">>,
       <<"t", "h", "i", "s", " ", "p", "i", "c", "t", "u", "r", "e">>,
       <<"t", "h", "e", " ", "i", "d", "i", "o", "m">>,
       <<"t", "h", "e", " ", "r", "e", "b", "u", "s">>,
       <<"t", "h", "e", " ", "p", "u", "z", "z", "l", "e">>,
       <<"t", "h", "e", " ", "i", "m", "a", "g", "e">>,
       <<"t", "h", "e", " ", "p", "i", "c", "t", "u", "r", "e">>,
       <<"r", "e", "p", "r", "e", "s", "e", "n", "t", "s">>,
       <<"m", "e", "a", "n", "s", " ", "t", "h", "a", "t">>,
       <<"r", "e", "f", "e", "r", "s", " ", "t", "o">>,
       <<"i", "n", "d", "i", "c", "a", "t", "e", "s">>,
       <<"s", "u", "g", "g", "e", "s", "t", "s">>,
       <<"t", "h", "i", "n", "k", "i", "n", "g", " ", "s", "t", "e", "p", " ", "b", "y", " ", "s", "t", "e", "p">>,
       <<"l", "e", "t", " ", "m", "e", " ", "t", "h", "i", "n", "k">>,
       <<"a", "n", "a", "l", "y", "z", "i", "n", "g">>,
       <<"l", "o", "o", "k", "i", "n", "g", " ", "a", "t">>,
       <<"i", " ", "c", "a", "n", " ", "s", "e", "e">>,
       <<"i", " ", "n", "o", "t", "i", "c", "e">>,
       <<"t", "h", "i", "s", " ", "s", "h", "o", "w", "s">>,
       <<"t", "h", "i", "s", " ", "d", "e", "p", "i", "c", "t", "s">> >>

is_description_text(t) ==
    IF t = <<>> THEN TRUE
    ELSE LET text_lower == lower(t)
         IN  \E k \in 1..Len(description_indicators) :
                 contains(text_lower, description_indicators[k])

MinChars == 3

MaxChars == 100

MinWords == 1

MaxWords == 10

(* is_likely_idiom without the two upper limits *)
is_likely_idiom_unbounded(t) ==
    IF t = <<>> \/ Len(strip(t)) < MinChars THEN FALSE
    ELSE ~is_description_text(strip(t))

is_likely_idiom(t) ==
    IF t = <<>> \/ Len(strip(t)) < MinChars THEN FALSE
    ELSE LET s == strip(t)
             word_count == Len(split(s))
         IN  IF Len(s) > MaxChars THEN FALSE
             ELSE IF word_count < MinWords \/ word_count > MaxWords THEN FALSE
             ELSE IF is_description_text(s) THEN FALSE
             ELSE TRUE

----------------------------------------------------------------------------
(* select_best_idiom_candidate *)

(* the words of the article bonus, looked up as substrings *)
ArticleWords ==
    << <<"t", "h", "e">>,
       <<"a">>,
       <<"a", "n">> >>

ScoreIdeal == 10

ScoreShort == 5

ScorePlain == 5

ScoreArticle == 2

IdealMinWords == 3

IdealMaxWords == 6

ShortMaxWords == 8

(* the score of one candidate *)
CandidateScore(candidate) ==
    LET word_count == Len(split(candidate))
        low == lower(candidate)
    IN  (IF IdealMinWords <= word_count /\ word_count <= IdealMaxWords THEN ScoreIdeal
         ELSE IF word_count <= ShortMaxWords THEN ScoreShort ELSE 0)
        + (IF ~is_description_text(candidate) THEN ScorePlain ELSE 0)
        + (IF \E k \in 1..Len(ArticleWords) : contains(low, ArticleWords[k])
           THEN ScoreArticle ELSE 0)

(* scored_candidates.append((score, candidate)), for each candidate in order *)
ScoredCandidates(candidates) ==
    [k \in 1..Len(candidates) |-> <<CandidateScore(candidates[k]), candidates[k]>>]

(* the place of entry k in the list sorted by falling score: behind every *)
(* entry of a higher score and every earlier entry of the same score       *)
RankScored(scored, k) ==
    Cardinality({j \in 1..Len(scored) : scored[j][1] > scored[k][1]})
    + Cardinality({j \in 1..(k - 1) : scored[j][1] = scored[k][1]}) + 1

(* a sort that puts the later of two entries of equal score first *)
RankScoredAhead(scored, k) ==
    Cardinality({j \in 1..Len(scored) : scored[j][1] > scored[k][1]})
    + Cardinality({j \in (k + 1)..Len(scored) : scored[j][1] = scored[k][1]}) + 1

SortScoredAhead(scored) ==
    [p \in 1..Len(scored) |-> scored[CHOOSE k \in 1..Len(scored) : RankScoredAhead(scored, k) = p]]

(* list.sort(key=lambda x: x[0], reverse=True): a stable sort, entries of *)
(* equal score keep their order                                           *)
SortScored(scored) ==
    [p \in 1..Len(scored) |-> scored[CHOOSE k \in 1..Len(scored) : RankScored(scored, k) = p]]

select_best_idiom_candidate(candidates) ==
    IF candidates = <<>> THEN <<>>
    ELSE IF Len(candidates) = 1 THEN candidates[1]
    ELSE SortScored(ScoredCandidates(candidates))[1][2]

----------------------------------------------------------------------------
(* extract_idiom: the patterns of the cascade *)

(* re.search(r'\{\{\{([^}]+?)\}\}\}', s): <<group(1)>> of the leftmost     *)
(* match, <<>> when there is none.  The group holds no "}", so it ends at  *)
(* the first "}" after the opening braces                                  *)
BraceSearch(s) ==
    LET starts == {i \in 1..(Len(s) - 6) :
                      /\ MatchAt(s, i, OpenBraces)
                      /\ LET j == SkipTo(s, i + 3, {"}"})
                         IN  j > i + 3 /\ MatchAt(s, j, CloseBraces)}
    IN  IF starts = {} THEN <<>>
        ELSE LET i == Min(starts)
             IN  <<SubSeq(s, i + 3, SkipTo(s, i + 3, {"}"}) - 1)>>

MarkerMinWords == 2

MarkerMaxWords == 8

RECURSIVE QuotedFrom(_, _, _)
(* re.findall(q + '([^' + q + ']+)' + q, s) from index i on: a match runs  *)
(* from one q to the next with something between them                      *)
QuotedFrom(s, q, i) ==
    LET a == SkipTo(s, i, {q})
        b == SkipTo(s, a + 1, {q})
    IN  IF b > Len(s) THEN <<>>
        ELSE IF b = a + 1 THEN QuotedFrom(s, q, a + 1)
        ELSE <<SubSeq(s, a + 1, b - 1)>> \o QuotedFrom(s, q, b + 1)

(* quote_patterns, in their order *)
QuoteChars == <<"\"", "'", Backtick>>

(* every match of the three quote patterns, in the order the loops visit   *)
(* them                                                                    *)
QuotedMatches(s) ==
    QuotedFrom(s, QuoteChars[1], 1) \o QuotedFrom(s, QuoteChars[2], 1)
        \o QuotedFrom(s, QuoteChars[3], 1)

(* clean_extracted_idiom over a sequence *)
CleanAll(ms) ==
    IF ms = <<>> THEN <<>>
    ELSE [k \in 1..Len(ms) |-> clean_extracted_idiom(ms[k])]

(* idiom_intro_patterns[0] *)
IntroIdiomIs ==
    << <<"t", "h", "e", " ", "i", "d", "i", "o", "m", " ", "i", "s">>,
       <<"i", "d", "i", "o", "m", " ", "i", "s">>,
       <<"a", "n", "s", "w", "e", "r", " ", "i", "s">>,
       <<"s", "o", "l", "u", "t", "i", "o", "n", " ", "i", "s">> >>

(* idiom_intro_patterns[1] *)
IntroThisIs ==
    << <<"t", "h", "i", "s", " ", "i", "d", "i", "o", "m", " ", "i", "s">>,
       <<"i", "t", " ", "i", "s">>,
       <<"t", "h", "i", "s", " ", "i", "s">> >>

(* idiom_intro_patterns[2] *)
IntroRepresents ==
    << <<"r", "e", "p", "r", "e", "s", "e", "n", "t", "s">>,
       <<"m", "e", "a", "n", "s">> >>

(* $ without re.MULTILINE: the end of s, or before a line break that ends s *)
AtEnd(s, i) == i > Len(s) \/ (i = Len(s) /\ s[i] = "\n")

(* (.+?)(?:\.|$) with the group begun at e: the last index of the shortest *)
(* group, 0 when a line break comes before "." or the end                  *)
GroupEnd(s, e) ==
    LET stops == {k \in e..Len(s) : AtEnd(s, k + 1) \/ s[k + 1] = "."}
    IN  IF stops = {} THEN 0
        ELSE IF SkipTo(s, e, {"\n"}) <= Min(stops) THEN 0
        ELSE Min(stops)

RECURSIVE GroupAfterSpace(_, _, _)
(* \s*(.+?)(?:\.|$) at c: \s* is greedy and gives back one character at a  *)
(* time, from g down to c; <<first, last>> of the group, <<>> for no match *)
GroupAfterSpace(s, c, g) ==
    LET e == GroupEnd(s, g)
    IN  IF e # 0 THEN <<g, e>>
        ELSE IF g > c THEN GroupAfterSpace(s, c, g - 1)
        ELSE <<>>

(* [:.]?\s*(.+?)(?:\.|$) at k: [:.]? takes its character first and gives   *)
(* it back when the rest fails                                             *)
GroupAfterIntro(s, k) ==
    LET with == IF k <= Len(s) /\ s[k] \in {":", "."}
                THEN GroupAfterSpace(s, k + 1, SkipSpace(s, k + 1)) ELSE <<>>
    IN  IF with # <<>> THEN with
        ELSE GroupAfterSpace(s, k, SkipSpace(s, k))

(* re.search(r'(?:alts)[:.]?\s*(.+?)(?:\.|$)', s, re.IGNORECASE):          *)
(* <<group(1)>> of the leftmost match, <<>> when there is none; at one     *)
(* index the alternatives are tried in their order                         *)
IntroSearch(s, alts) ==
    LET Hit(i) == {k \in 1..Len(alts) :
                      /\ MatchAtCI(s, i, alts[k])
                      /\ GroupAfterIntro(s, i + Len(alts[k])) # <<>>}
        starts == {i \in 1..Len(s) : Hit(i) # {}}
    IN  IF starts = {} THEN <<>>
        ELSE LET i == Min(starts)
                 g == GroupAfterIntro(s, i + Len(alts[Min(Hit(i))]))
             IN  <<SubSeq(s, g[1], g[2])>>

(* the first group of each intro pattern that matches, in pattern order    *)
IntroMatches(s) ==
    IntroSearch(s, IntroIdiomIs) \o IntroSearch(s, IntroThisIs)
        \o IntroSearch(s, IntroRepresents)

RECURSIVE LinesFrom(_, _)
(* [line.strip() for line in s.split('\n') if line.strip()] *)
LinesFrom(s, i) ==
    IF i > Len(s) + 1 THEN <<>>
    ELSE LET j == SkipTo(s, i, {"\n"})
             line == strip(IF j > i THEN SubSeq(s, i, j - 1) ELSE <<>>)
         IN  (IF line = <<>> THEN <<>> ELSE <<line>>) \o LinesFrom(s, j + 1)

NotDescription(line) == ~is_description_text(line)

(* re.split(r'[.!?]+', s)[0].strip() *)
FirstSentence(s) ==
    LET j == SkipTo(s, 1, {".", "!", "?"})
    IN  strip(IF j > 1 THEN SubSeq(s, 1, j - 1) ELSE <<>>)

NgramMinWords == 3

NgramMaxWords == 8

(* ' '.join(words[i:j]) for i in range(len(words))                         *)
(*                      for j in range(i + 3, min(i + 9, len(words) + 1))  *)
(* with i counted from 1                                                   *)
Ngrams(words) ==
    LET Most(i) == IF Len(words) - i + 1 < NgramMaxWords
                   THEN Len(words) - i + 1 ELSE NgramMaxWords
        At(i) == IF Most(i) < NgramMinWords THEN <<>>
                 ELSE [k \in 1..(Most(i) - NgramMinWords + 1) |->
                          join(<<" ">>, SubSeq(words, i, i + NgramMinWords + k - 2))]
    IN  IF words = <<>> THEN <<>>
        ELSE Concat([i \in 1..Len(words) |-> At(i)])

Outcome(t, stage) == [extracted_text |-> t, stage_used |-> stage]

(* Pattern 1 without the word-count clause: a marker is believed only when *)
(* its content is a likely idiom                                           *)
BracketStageStrict(s) ==
    LET m == BraceSearch(s)
        extracted == IF m = <<>> THEN <<>> ELSE strip(m[1])
        cleaned == clean_extracted_idiom(extracted)
    IN  IF extracted # <<>> /\ is_likely_idiom(cleaned) THEN <<cleaned>> ELSE <<>>

(* Pattern 1 without the cleaning: a marker gives its content as written *)
MarkerExtractedAsWritten(extracted) ==
    IF extracted = <<>> THEN <<>>
    ELSE IF is_likely_idiom(extracted) THEN <<extracted>>
    ELSE IF Len(split(extracted)) >= MarkerMinWords /\ Len(split(extracted)) <= MarkerMaxWords
         THEN <<extracted>>
    ELSE <<>>

(* the two returns of Pattern 1, n being len(extracted.split()) *)
MarkerReturn(extracted, cleaned, n) ==
    IF is_likely_idiom(cleaned) THEN <<cleaned>>
    ELSE IF n >= MarkerMinWords /\ n <= MarkerMaxWords THEN <<strip(extracted)>>
    ELSE <<>>

(* if extracted and len(extracted) > 0 *)
MarkerExtracted(extracted) ==
    IF extracted = <<>> THEN <<>>
    ELSE MarkerReturn(extracted, clean_extracted_idiom(extracted),
                      Len(split(extracted)))

(* if match: extracted = match.group(1).strip() *)
MarkerMatch(m) == IF m = <<>> THEN <<>> ELSE MarkerExtracted(strip(m[1]))

(* Pattern 1: the triple curly brackets; <<>> when the stage returns nothing *)
BracketStage(s) == MarkerMatch(BraceSearch(s))

(* the first return a loop reaches: <<q[1]>>, <<>> when q is empty *)
FirstOf(q) == IF q = <<>> THEN <<>> ELSE <<q[1]>>

(* candidate = match.group(1).strip() over a sequence *)
StripAll(ms) == IF ms = <<>> THEN <<>> ELSE [k \in 1..Len(ms) |-> strip(ms[k])]

(* if idiom_candidates: return select_best_idiom_candidate(idiom_candidates) *)
BestOf(idiom_candidates) ==
    IF idiom_candidates = <<>> THEN <<>>
    ELSE <<select_best_idiom_candidate(idiom_candidates)>>

(* Patterns 2 to 5: the first candidate of the stage that cleans to a      *)
(* likely idiom, cleaned; <<>> when the stage returns nothing              *)
FirstAccepted(ms) == FirstOf(SelectSeq(CleanAll(ms), is_likely_idiom))

QuotedStage(s) == FirstAccepted(QuotedMatches(s))

IntroStage(s) == FirstAccepted(StripAll(IntroMatches(s)))

(* Pattern 4 left out *)
LineStageSkipped(s) == <<>>

LineStage(s) == FirstAccepted(SelectSeq(LinesFrom(s, 1), NotDescription))

SentenceStage(s) == FirstAccepted(<<FirstSentence(s)>>)

(* Pattern 6 *)
NgramStage(s) == BestOf(SelectSeq(CleanAll(Ngrams(split(s))), is_likely_idiom))

(* one stage of the cascade: its return when it has one, the stages after  *)
(* it otherwise                                                            *)
Pick(p, stage, rest) == IF p # <<>> THEN Outcome(p[1], stage) ELSE rest

(* the cascade with the quotation marks tried before the curly brackets *)
ExtractQuotedFirst(raw) ==
    IF raw = <<>> \/ strip(raw) = <<>> THEN Outcome(<<>>, "EMPTY")
    ELSE LET s == strip(raw)
         IN  Pick(QuotedStage(s), "QUOTED",
             Pick(BracketStage(s), "BRACKET_MARKER",
             Pick(IntroStage(s), "KEYWORD_INTRO",
             Pick(LineStage(s), "STANDALONE_LINE",
             Pick(SentenceStage(s), "FIRST_SENTENCE",
             Pick(NgramStage(s), "NGRAM_SCAN",
                  Outcome(clean_extracted_idiom(s), "FALLBACK_RAW")))))))

(* the cascade with the standalone lines tried before the quotation marks *)
ExtractLinesFirst(raw) ==
    IF raw = <<>> \/ strip(raw) = <<>> THEN Outcome(<<>>, "EMPTY")
    ELSE LET s == strip(raw)
         IN  Pick(BracketStage(s), "BRACKET_MARKER",
             Pick(LineStage(s), "STANDALONE_LINE",
             Pick(QuotedStage(s), "QUOTED",
             Pick(IntroStage(s), "KEYWORD_INTRO",
             Pick(SentenceStage(s), "FIRST_SENTENCE",
             Pick(NgramStage(s), "NGRAM_SCAN",
                  Outcome(clean_extracted_idiom(s), "FALLBACK_RAW")))))))

(* the cascade without its last return: the function falls off its end *)
ExtractWithoutFallback(raw) ==
    IF raw = <<>> \/ strip(raw) = <<>> THEN Outcome(<<>>, "EMPTY")
    ELSE LET s == strip(raw)
         IN  Pick(BracketStage(s), "BRACKET_MARKER",
             Pick(QuotedStage(s), "QUOTED",
             Pick(IntroStage(s), "KEYWORD_INTRO",
             Pick(LineStage(s), "STANDALONE_LINE",
             Pick(SentenceStage(s), "FIRST_SENTENCE",
             Pick(NgramStage(s), "NGRAM_SCAN",
                  [stage_used |-> "NONE"]))))))

Stages ==
    {"EMPTY", "BRACKET_MARKER", "QUOTED", "KEYWORD_INTRO", "STANDALONE_LINE",
     "FIRST_SENTENCE", "NGRAM_SCAN", "FALLBACK_RAW"}

(* extract_idiom with the return statement that produced the value *)
ExtractOutcome(raw) ==
    IF raw = <<>> \/ strip(raw) = <<>> THEN Outcome(<<>>, "EMPTY")
    ELSE LET s == strip(raw)
         IN  Pick(BracketStage(s), "BRACKET_MARKER",
             Pick(QuotedStage(s), "QUOTED",
             Pick(IntroStage(s), "KEYWORD_INTRO",
             Pick(LineStage(s), "STANDALONE_LINE",
             Pick(SentenceStage(s), "FIRST_SENTENCE",
             Pick(NgramStage(s), "NGRAM_SCAN",
                  Outcome(clean_extracted_idiom(s), "FALLBACK_RAW")))))))

extract_idiom(raw) == ExtractOutcome(raw).extracted_text

----------------------------------------------------------------------------
(* Python float: IEEE 754 binary64, round to nearest, ties to even.  A     *)
(* natural number of any size is its digits to the base 2^14, the least    *)
(* first, with no leading zero digit; a finite float is a sign, a 53-bit   *)
(* mantissa m and an exponent e, for m * 2^e, and zero has m = <<>>.  The  *)
(* values of this program are far from the subnormal and the overflow      *)
(* range, which are left out.                                              *)

LimbBits == 14

Base == 2^14

MantissaBits == 53

(* the bits a quotient of two mantissas is computed to *)
QuotientBits == 56

Limb(a, k) == IF k <= Len(a) THEN a[k] ELSE 0

BigTrim(a) ==
    LET nz == {k \in 1..Len(a) : a[k] # 0}
    IN  IF nz = {} THEN <<>> ELSE SubSeq(a, 1, Max(nz))

RECURSIVE BigAddFrom(_, _, _, _)
BigAddFrom(a, b, k, carry) ==
    IF k > Len(a) /\ k > Len(b)
    THEN (IF carry = 0 THEN <<>> ELSE <<carry>>)
    ELSE LET t == Limb(a, k) + Limb(b, k) + carry
         IN  <<t % Base>> \o BigAddFrom(a, b, k + 1, t \div Base)

BigAdd(a, b) == BigAddFrom(a, b, 1, 0)

RECURSIVE BigSubFrom(_, _, _, _)
BigSubFrom(a, b, k, borrow) ==
    IF k > Len(a) THEN <<>>
    ELSE LET t == Limb(a, k) - Limb(b, k) - borrow
         IN  <<t % Base>> \o BigSubFrom(a, b, k + 1, IF t < 0 THEN 1 ELSE 0)

(* a - b for a >= b *)
BigSub(a, b) == BigTrim(BigSubFrom(a, b, 1, 0))

(* -1, 0, 1 as a < b, a = b, a > b *)
BigCmp(a, b) ==
    IF Len(a) # Len(b) THEN (IF Len(a) < Len(b) THEN -1 ELSE 1)
    ELSE LET d == {k \in 1..Len(a) : a[k] # b[k]}
         IN  IF d = {} THEN 0
             ELSE IF a[Max(d)] < b[Max(d)] THEN -1 ELSE 1

RECURSIVE BigMulSmallFrom(_, _, _, _)
BigMulSmallFrom(a, d, k, carry) ==
    IF k > Len(a) THEN (IF carry = 0 THEN <<>> ELSE <<carry>>)
    ELSE LET t == a[k] * d + carry
         IN  <<t % Base>> \o BigMulSmallFrom(a, d, k + 1, t \div Base)

(* a * d for a digit d *)
BigMulSmall(a, d) == IF d = 0 THEN <<>> ELSE BigMulSmallFrom(a, d, 1, 0)

(* a * Base^n *)
BigShiftLimbs(a, n) ==
    IF a = <<>> \/ n = 0 THEN a ELSE [k \in 1..n |-> 0] \o a

RECURSIVE BigMulFrom(_, _, _)
BigMulFrom(a, b, j) ==
    IF j > Len(b) THEN <<>>
    ELSE BigAdd(BigShiftLimbs(BigMulSmall(a, b[j]), j - 1), BigMulFrom(a, b, j + 1))

BigMul(a, b) == BigMulFrom(a, b, 1)

(* a * 2^n *)
BigShiftLeft(a, n) ==
    BigShiftLimbs(BigMulSmall(a, 2^(n % LimbBits)), n \div LimbBits)

(* a \div 2^n *)
BigShiftRight(a, n) ==
    LET q == n \div LimbBits
        r == n % LimbBits
        len == Len(a) - q
    IN  IF len <= 0 THEN <<>>
        ELSE BigTrim([k \in 1..len |->
                 (a[k + q] \div 2^r) + (Limb(a, k + q + 1) % 2^r) * 2^(LimbBits - r)])

(* the number of bits of a *)
BigBitLen(a) ==
    IF a = <<>> THEN 0
    ELSE LimbBits * (Len(a) - 1) + Min({k \in 1..LimbBits : a[Len(a)] < 2^k})

BigOfInt(n) == BigTrim(<<n % Base, (n \div Base) % Base, n \div (Base * Base)>>)

FloatZero == [neg |-> FALSE, m |-> <<>>, e |-> 0]

(* float("nan") *)
NaN == [nan |-> TRUE]

(* the mantissa m of more than MantissaBits bits cut by one bit more *)
RoundCarry(e, cut, m) ==
    IF BigBitLen(m) > MantissaBits
    THEN [neg |-> FALSE, m |-> BigShiftRight(m, 1), e |-> e + cut + 1]
    ELSE [neg |-> FALSE, m |-> m, e |-> e + cut]

(* round to nearest, ties to even: half is -1, 0, 1 as the bits cut off are *)
(* below, at or above the half of the last bit kept                         *)
RoundHalf(e, sticky, cut, kept, half) ==
    RoundCarry(e, cut, IF half > 0 \/ (half = 0 /\ (sticky \/ kept[1] % 2 = 1))
                       THEN BigAdd(kept, <<1>>) ELSE kept)

RoundKept(n, e, sticky, cut, kept) ==
    RoundHalf(e, sticky, cut, kept,
              BigCmp(BigSub(n, BigShiftLeft(kept, cut)), BigShiftLeft(<<1>>, cut - 1)))

(* n # <<>> with cut bits more than a mantissa holds *)
RoundCut(n, e, sticky, cut) ==
    IF cut <= 0
    THEN [neg |-> FALSE, m |-> BigShiftLeft(n, -cut), e |-> e + cut]
    ELSE RoundKept(n, e, sticky, cut, BigShiftRight(n, cut))

(* n * 2^e, or a little more when sticky, rounded to a float *)
RoundFloat(n, e, sticky) ==
    IF n = <<>> THEN FloatZero
    ELSE RoundCut(n, e, sticky, BigBitLen(n) - MantissaBits)

(* float(n) for an int n >= 0 *)
FloatOfInt(n) == RoundFloat(BigOfInt(n), 0, FALSE)

IsZero(x) == x.m = <<>>

(* -1, 0, 1 as |x| < |y|, |x| = |y|, |x| > |y| *)
MagCmp(x, y) ==
    IF IsZero(x) \/ IsZero(y)
    THEN (IF IsZero(x) /\ IsZero(y) THEN 0 ELSE IF IsZero(x) THEN -1 ELSE 1)
    ELSE IF x.e # y.e THEN (IF x.e < y.e THEN -1 ELSE 1)
    ELSE BigCmp(x.m, y.m)

(* x <= y *)
FloatLeq(x, y) ==
    IF x.neg /\ ~IsZero(x)
    THEN (IF y.neg /\ ~IsZero(y) THEN MagCmp(x, y) >= 0 ELSE TRUE)
    ELSE (IF y.neg /\ ~IsZero(y) THEN IsZero(x) /\ IsZero(y) ELSE MagCmp(x, y) <= 0)

(* x == y: the two zeros are equal *)
FloatEq(x, y) == (IsZero(x) /\ IsZero(y)) \/ (x.neg = y.neg /\ x.m = y.m /\ x.e = y.e)

(* |x| + |y| *)
MagAdd(x, y) ==
    LET lo == IF x.e < y.e THEN x.e ELSE y.e
    IN  IF IsZero(x) THEN [y EXCEPT !.neg = FALSE]
        ELSE IF IsZero(y) THEN [x EXCEPT !.neg = FALSE]
        ELSE RoundFloat(BigAdd(BigShiftLeft(x.m, x.e - lo), BigShiftLeft(y.m, y.e - lo)),
                        lo, FALSE)

(* |x| - |y| for |x| >= |y| *)
MagSub(x, y) ==
    LET lo == IF x.e < y.e THEN x.e ELSE y.e
    IN  IF IsZero(y) THEN [x EXCEPT !.neg = FALSE]
        ELSE RoundFloat(BigSub(BigShiftLeft(x.m, x.e - lo), BigShiftLeft(y.m, y.e - lo)),
                        lo, FALSE)

Negate(x) == IF IsZero(x) THEN x ELSE [x EXCEPT !.neg = ~x.neg]

(* v with the sign neg *)
Signed(v, neg) == IF neg THEN Negate(v) ELSE v

(* x + y *)
FloatAdd(x, y) ==
    IF x.neg = y.neg THEN Signed(MagAdd(x, y), x.neg)
    ELSE IF MagCmp(x, y) >= 0 THEN Signed(MagSub(x, y), x.neg)
    ELSE Signed(MagSub(y, x), y.neg)

(* x - y *)
FloatSub(x, y) == FloatAdd(x, [y EXCEPT !.neg = ~y.neg])

(* x * y *)
FloatMul(x, y) ==
    LET p == RoundFloat(BigMul(x.m, y.m), x.e + y.e, FALSE)
    IN  IF IsZero(x) \/ IsZero(y) THEN FloatZero
        ELSE [p EXCEPT !.neg = (x.neg # y.neg)]

RECURSIVE DivSteps(_, _, _, _)
(* binary long division of the remainder r by b, one quotient bit a step,  *)
(* until the quotient q has n bits: <<remainder, quotient>>                *)
DivSteps(r, b, q, n) ==
    IF BigBitLen(q) >= n THEN <<r, q>>
    ELSE LET r2 == BigMulSmall(r, 2)
             ge == BigCmp(r2, b) >= 0
         IN  DivSteps(IF ge THEN BigSub(r2, b) ELSE r2, b,
                      BigAdd(BigMulSmall(q, 2), IF ge THEN <<1>> ELSE <<>>), n)

(* the division taken on from <<remainder, quotient>> to n quotient bits *)
DivMore(s, b, n) == DivSteps(s[1], b, s[2], n)

(* <<remainder, quotient>> of num by b, b <= num < 2b, to QuotientBits bits *)
DivQuotient(num, b) ==
    DivMore(DivMore(DivMore(DivSteps(BigSub(num, b), b, <<1>>, QuotientBits \div 4),
                            b, QuotientBits \div 2),
                    b, 3 * (QuotientBits \div 4)),
            b, QuotientBits)

(* the quotient rounded, the remainder being the sticky bit *)
RoundQuotient(s, e) == RoundFloat(s[2], e, s[1] # <<>>)

(* |x / y|, small telling that the mantissa of x is below that of y *)
MagDiv(x, y, small) ==
    RoundQuotient(DivQuotient(IF small THEN BigMulSmall(x.m, 2) ELSE x.m, y.m),
                  x.e - y.e - (QuotientBits - 1) - (IF small THEN 1 ELSE 0))

(* x / y for y # 0.  The mantissa of x is doubled when it is below that of *)
(* y, so the quotient starts with a 1; it is taken to QuotientBits bits    *)
(* and the remainder is the sticky bit                                     *)
FloatDiv(x, y) ==
    IF IsZero(x) THEN FloatZero
    ELSE [MagDiv(x, y, BigCmp(x.m, y.m) < 0) EXCEPT !.neg = (x.neg # y.neg)]

----------------------------------------------------------------------------
(* calculate_token_f1 *)

(* set(s) of a sequence *)
Range(s) == {s[k] : k \in 1..Len(s)}

(* tokenize_for_f1 *)
tokenize_for_f1(t) == Range(split(normalize_idiom(t)))

FloatOne == FloatOfInt(1)

(* a / b of two ints, 0 <= a and 0 < b *)
Ratio(a, b) == FloatDiv(FloatOfInt(a), FloatOfInt(b))

(* f1 = 2 * (precision * recall) / (precision + recall), 0.0 when the sum *)
(* is zero                                                                 *)
F1Of(precision, recall) ==
    IF IsZero(FloatAdd(precision, recall)) THEN FloatZero
    ELSE FloatDiv(FloatMul(FloatOfInt(2), FloatMul(precision, recall)),
                  FloatAdd(precision, recall))

(* calculate_token_f1 from the two token sets on, common being the size of *)
(* their intersection                                                      *)
TokenSetsF1(gt_tokens, pred_tokens, common) ==
    IF gt_tokens = {} /\ pred_tokens = {} THEN FloatOne
    ELSE IF gt_tokens = {} \/ pred_tokens = {} THEN FloatZero
    ELSE F1Of(Ratio(common, Cardinality(pred_tokens)),
              Ratio(common, Cardinality(gt_tokens)))

(* the tokens of either set counted as common *)
CommonOfEither(gt_tokens, pred_tokens) == Cardinality(gt_tokens \cup pred_tokens)

(* len(gt_tokens.intersection(pred_tokens)) *)
Common(gt_tokens, pred_tokens) == Cardinality(gt_tokens \cap pred_tokens)

TokenF1(gt_tokens, pred_tokens) ==
    TokenSetsF1(gt_tokens, pred_tokens, Common(gt_tokens, pred_tokens))

calculate_token_f1(truth, pred) == TokenF1(tokenize_for_f1(truth), tokenize_for_f1(pred))

----------------------------------------------------------------------------
(* Inputs: model responses put together from fragments *)

(* a marker around one short word *)
MarkerOneWord ==
    <<"{", "{", "{", "a", "b", "}", "}", "}">>

(* a marker around a likely idiom *)
MarkerIdiom ==
    <<"{", "{", "{", "k", "i", "c", "k", " ", "t", "h", "e", " ", "c", "a",
    "n", "}", "}", "}">>

(* a marker around three words that read as a description *)
MarkerDescription ==
    <<"{", "{", "{", "t", "h", "i", "s", " ", "s", "h", "o", "w", "s", " ",
    "x", "}", "}", "}">>

(* a marker around a likely idiom behind a leading filler *)
MarkerFiller ==
    <<"{", "{", "{", "i", "t", " ", "i", "s", " ", "r", "a", "i", "n", "i", "n", "g",
    "}", "}", "}">>

(* a marker around two words that are longer than MaxChars together *)
MarkerLong ==
    OpenBraces \o [i \in 1..(MaxChars + 1) |-> IF i = (MaxChars \div 2) + 1 THEN " " ELSE "w"]
        \o CloseBraces

(* a quoted likely idiom *)
QuotedIdiom ==
    <<"\"", "p", "i", "e", "c", "e", " ", "o", "f", " ", "c", "a", "k", "e",
    "\"">>

(* a word *)
PlainWord ==
    <<"f", "u", "n">>

(* the end of a sentence and the start of a description *)
DescriptionTail ==
    <<".", " ", "i", "t", " ", "r", "e", "p", "r", "e", "s", "e", "n", "t", "s", " ">>

Fragments ==
    {MarkerOneWord, MarkerIdiom, MarkerDescription, MarkerFiller, MarkerLong,
     QuotedIdiom, PlainWord, DescriptionTail, <<" ">>}

MaxParts == 3

Responses == {Concat(ps) : ps \in UNION {[1..n -> Fragments] : n \in 0..MaxParts}}

(* Inputs: responses that hold several quoted phrases *)

(* plain words, two quoted single words, three quoted phrases of three
   words in the three kinds of quotation marks, and a quoted description *)
QuotedFragments ==
    { <<"M", "u", "l", "t", "i", "p", "l", "e", " ">>,
      <<"\"", "q", "u", "o", "t", "e", "d", "\"", " ">>,
      <<"\"", "p", "h", "r", "a", "s", "e", "s", "\"">>,
      <<" ", "h", "e", "r", "e">>,
      <<"\"", "k", "i", "c", "k", " ", "i", "t", " ", "i", "n", "\"", " ">>,
      <<"'", "b", "r", "e", "a", "k", " ", "t", "h", "e", " ", "i", "c", "e", "'", " ">>,
      <<Backtick, "p", "i", "e", "c", "e", " ", "o", "f", " ", "c", "a", "k", "e", Backtick>>,
      <<"\"", "t", "h", "i", "s", " ", "s", "h", "o", "w", "s", " ", "x", "\"", " ">> }

(* 'Multiple "quoted" "phrases" here' *)
QuotedTestResponse ==
    <<"M", "u", "l", "t", "i", "p", "l", "e", " ", "\"", "q", "u", "o", "t", "e", "d", "\"", " ", "\"", "p", "h", "r", "a", "s", "e", "s", "\"", " ", "h", "e", "r", "e">>

MaxQuotedParts == 3

QuotedResponses ==
    {Concat(ps) : ps \in UNION {[1..n -> QuotedFragments] : n \in 0..MaxQuotedParts}}
        \cup {QuotedTestResponse}

(* Inputs: phrases of a few words *)
PhraseWords ==
    { <<"a">>, <<"t", "h", "e">>, <<"c", "a", "t">>, <<"a", "n", "d">>,
      <<"K", "i", "c", "k", "!">>, <<"u", "-", "b">> }

MaxPhraseWords == 3

PhrasesOver(words, most) ==
    {join(<<" ">>, ws) : ws \in UNION {[1..n -> words] : n \in 0..most}}

Phrases == PhrasesOver(PhraseWords, MaxPhraseWords)

F1Words == { <<"a">>, <<"t", "h", "e">>, <<"c", "a", "t">>, <<"d", "o", "g">> }

MaxF1Words == 3

F1Phrases == PhrasesOver(F1Words, MaxF1Words)

(* Inputs: phrases with articles, separators and punctuation *)

(* the three articles, a word, words joined by two dashes and by an
   underscore and a dash, a word behind an exclamation mark, two words
   around a dash between spaces, two words around a tab and a space, two
   accented letters around a carriage return, and two words around a dash
   between a no-break space and a form feed *)
SeparatorWords ==
    { <<"a">>,
      <<"T", "h", "e">>,
      <<"a", "n">>,
      <<"c", "a", "t">>,
      <<"x", "-", "-", "y">>,
      <<"p", "_", "-", "q">>,
      <<"!", "g", "o">>,
      <<"u", " ", "-", " ", "r">>,
      <<"s", "\t", " ", "t">>,
      <<"É", "\r", "é">>,
      <<"v", NoBreakSpace, "-", "\f", "w">> }

MaxSeparatorWords == 3

SeparatorPhrases == PhrasesOver(SeparatorWords, MaxSeparatorWords)

(* Inputs: answers with and without an intro keyword *)

(* plain words, intro keywords in lower case and capitalised, a word with an
   apostrophe, one with a line break, a marker, a word with a period inside,
   a description indicator, and an accented word with a carriage return
   behind it *)
IdentityWords ==
    { <<"p", "i", "e", "c", "e">>,
      <<"o", "f", " ", "c", "a", "k", "e">>,
      <<"T", "i", "m", "e">>,
      <<"M", "e", "a", "n", "s">>,
      <<"m", "e", "a", "n", "s">>,
      <<"i", "t", " ", "i", "s">>,
      <<"A", "n", "s", "w", "e", "r", " ", "I", "s">>,
      <<"d", "o", "g", "'", "s">>,
      <<"a", "\n", "b">>,
      <<"{", "{", "{", "h", "i", "t", " ", "i", "t", "}", "}", "}">>,
      <<"v", ".", "s">>,
      <<"t", "h", "e", " ", "i", "d", "i", "o", "m">>,
      <<"c", "a", "f", "é", "\r", "i", "t">> }

MaxIdentityWords == 3

IdentityPhrases == PhrasesOver(IdentityWords, MaxIdentityWords)

(* 'Time v.s piece' *)
PlainWithPeriod ==
    <<"T", "i", "m", "e", " ", "v", ".", "s", " ", "p", "i", "e", "c", "e">>

(* Inputs: raw matches with filler around the phrase *)

(* three leading fillers, a phrase in double quotation marks, a phrase,
   two trailing filler words, two terminal punctuation marks, a single
   quotation mark, a leading filler with a no-break space behind it and a
   trailing filler word behind a carriage return *)
CleanFragments ==
    { <<"I", " ", "t", "h", "i", "n", "k", " ">>,
      <<"t", "h", "i", "s", " ", "i", "s", " ">>,
      <<"T", "h", "e", " ", "i", "d", "i", "o", "m", " ", "i", "s", ":", " ">>,
      <<"\"", "b", "r", "e", "a", "k", " ", "t", "h", "e", " ", "i", "c", "e", "\"">>,
      <<"p", "i", "e", "c", "e", " ", "o", "f", " ", "c", "a", "k", "e">>,
      <<" ", "i", "d", "i", "o", "m">>,
      <<" ", "p", "u", "z", "z", "l", "e">>,
      <<".">>,
      <<"?">>,
      <<"'">>,
      <<"i", "t", " ", "i", "s", ":", NoBreakSpace>>,
      <<"\r", "p", "h", "r", "a", "s", "e">> }

MaxCleanParts == 3

CleanTexts ==
    {Concat(ps) : ps \in UNION {[1..n -> CleanFragments] : n \in 0..MaxCleanParts}}

(* 'I think this is "break the ice"' *)
StackedFillers ==
    <<"I", " ", "t", "h", "i", "n", "k", " ", "t", "h", "i", "s", " ", "i", "s", " ", "\"", "b", "r", "e", "a", "k", " ", "t", "h", "e", " ", "i", "c", "e", "\"">>

(* Inputs: texts for is_description_text and is_likely_idiom *)

(* w, k times *)
Repeat(w, k) == IF k < 1 THEN <<>> ELSE Concat([i \in 1..k |-> w])

MaxTailWords == 10

(* heads of the texts: nothing, one character, a short single word, the same
   in capitals, an accented word in capitals, a plain idiom, two description
   indicators, and single words of MaxChars and of MaxChars + 1 characters *)
ClassifierHeads ==
    { <<>>,
      <<"x">>,
      <<"j", "u", "m", "p">>,
      <<"J", "U", "M", "P">>,
      <<"É", "T", "É">>,
      <<"p", "i", "e", "c", "e", " ", "o", "f", " ", "c", "a", "k", "e">>,
      <<"T", "h", "i", "s", " ", "I", "d", "i", "o", "m">>,
      <<"i", " ", "c", "a", "n", " ", "s", "e", "e">>,
      Repeat(<<"w">>, MaxChars),
      Repeat(<<"w">>, MaxChars + 1) }

(* a head between optional whitespace, with up to MaxTailWords words after it *)
ClassifierTexts ==
    {lead \o head \o Repeat(<<" ", "a", "b">>, k) \o trail :
        lead \in {<<>>, <<" ">>, <<NoBreakSpace>>}, head \in ClassifierHeads,
        k \in 0..MaxTailWords, trail \in {<<>>, <<" ">>, <<"\n">>, <<"\r">>}}

(* Inputs: responses that no pattern of extract_idiom accepts *)

(* a capital letter, descriptions with capitals, and single words of more
   than MaxChars characters, in small letters and in capitals *)
FallbackHeads ==
    { <<"X">>,
      <<"I", " ", "c", "a", "n", " ", "s", "e", "e">>,
      <<"T", "h", "i", "s", " ", "I", "m", "a", "g", "e", " ", "S", "h", "o", "w", "s", " ", "I", "t">>,
      Repeat(<<"w">>, MaxChars + 1),
      Repeat(<<"W">>, MaxChars + 1) }

FallbackTexts == ClassifierTexts \cup FallbackHeads

(* Inputs: candidate lists for select_best_idiom_candidate *)

(* phrases of unlike scores: three words without an article, three words
   with the letter "a" but no article, three words with an article, a
   description, a single word, a description of nine words *)
SelectPhrases ==
    { <<"k", "i", "c", "k", " ", "i", "t", " ", "i", "n">>,
      <<"s", "p", "i", "l", "l", " ", "b", "e", "a", "n", "s", " ", "a", "l", "l">>,
      <<"b", "r", "e", "a", "k", " ", "t", "h", "e", " ", "i", "c", "e">>,
      <<"t", "h", "i", "s", " ", "s", "h", "o", "w", "s", " ", "x">>,
      <<"j", "u", "m", "p">>,
      <<"i", "t", " ", "s", "h", "o", "w", "s", " ", "a", " ", "b", " ", "c", " ", "d", " ", "e", " ", "f", " ", "g">> }

MaxCandidates == 3

CandidateLists == UNION {[1..n -> SelectPhrases] : n \in 0..MaxCandidates}

(* Inputs: the scenarios of the test suites, one sample each *)

(* what a response puts between the braces of its marker *)
MarkerContents ==
    { <<"a", " ", "d", "r", "o", "p", " ", "i", "n", " ", "t", "h", "e", " ", "b", "u", "c", "k", "e", "t">>,
      <<"p", "i", "e", "c", "e", " ", "o", "f", " ", "c", "a", "k", "e">>,
      <<"k", "i", "c", "k", " ", "t", "h", "e", " ", "c", "a", "n">>,
      <<"A", " ", "P", "i", "e", "c", "e", " ", "O", "f", " ", "C", "a", "k", "e">>,
      <<"I", " ", "t", "h", "i", "n", "k", " ", "k", "i", "c", "k", " ", "t", "h", "e", " ", "c", "a", "n">>,
      <<"i", "t", " ", "i", "s", " ", "r", "a", "i", "n", "i", "n", "g">>,
      <<"p", "i", "e", "c", "e", " ", "o", "f", " ", "c", "a", "k", "e", ".">>,
      <<" ", "h", "o", "l", "d", " ", "o", "n", " ">>,
      <<"t", "h", "i", "s", " ", "s", "h", "o", "w", "s", " ", "x">>,
      <<"j", "u", "m", "p">> }

(* what a response puts before and after its marker *)
Surroundings ==
    { <<<<"T", "h", "e", " ", "i", "d", "i", "o", "m", " ", "i", "s", " ">>, <<>>>>,
      <<<<>>, <<>>>>,
      <<<<>>, <<" ", "i", "s", " ", "t", "h", "e", " ", "i", "d", "i", "o", "m", " ", "s", "h", "o", "w", "n", " ", "h", "e", "r", "e">>>>,
      <<<<"I", " ", "t", "h", "i", "n", "k", " ", "\"", "w", "r", "o", "n", "g", " ", "a", "n", "s", "w", "e", "r", "\"", " ", "h", "o", "w", "e", "v", "e", "r", " ">>, <<>>>>,
      <<<<"T", "h", "i", "s", " ", "r", "e", "b", "u", "s", " ", "p", "u", "z", "z", "l", "e", " ", "r", "e", "p", "r", "e", "s", "e", "n", "t", "s", " ">>, <<" ", "w", "h", "i", "c", "h", " ", "m", "e", "a", "n", "s", ".", ".", ".">>>>,
      <<<<"T", "h", "e", "r", "e", "f", "o", "r", "e", ",", " ", "t", "h", "e", " ", "a", "n", "s", "w", "e", "r", " ", "i", "s", " ">>, <<".">>>> }

(* a response with one marker, and the content of the marker as the truth *)
MarkerCases ==
    {[truth |-> x, raw |-> around[1] \o OpenBraces \o x \o CloseBraces \o around[2]] :
        x \in MarkerContents, around \in Surroundings}

SpillTruth == <<"s", "p", "i", "l", "l", " ", "t", "h", "e", " ", "b", "e", "a", "n", "s">>

SpillRaw ==
    <<"T", "h", "i", "s", " ", "r", "e", "b", "u", "s", " ", "r", "e", "p", "r", "e", "s", "e", "n", "t", "s", " ", "s", "p", "i", "l", "l", " ", "t", "h", "e", " ", "b", "e", "a", "n", "s", ",", " ", "s", "o", " ", "s", "p", "i", "l", "l", " ", "b", "e", "a", "n", "s">>

ScenarioCases == MarkerCases \cup {[truth |-> SpillTruth, raw |-> SpillRaw]}

ScenarioId == <<"i", "m", "g", "_", "0", "0", "1">>

----------------------------------------------------------------------------
(* Result records and the batches under evaluation *)

(* a results.json record that carries prediction and ground truth *)
WellFormed(r) == {"ground_truth", "prediction"} \subseteq DOMAIN r

Sample(id, truth, pred) == [image_id |-> id, ground_truth |-> truth, prediction |-> pred]

Samples ==
    { Sample(<<"1">>, <<"b", " ", "c", " ", "d">>,
             <<"\"", "b", " ", "c", " ", "d", "\"", " ", "x">>),
      Sample(<<"2">>, <<"a", "b", " ", "i", "d", "i", "o", "m">>,
             <<"a", "b", " ", "i", "d", "i", "o", "m">>),
      Sample(<<"3">>, <<"b", " ", "c", " ", "d">>, <<"b", " ", "x", " ", "y">>),
      Sample(<<"4">>, <<"b">>, <<"b">>),
      Sample(<<"5">>, <<"b">>, <<" ">>),
      Sample(<<"6">>, <<>>, <<>>),
      [image_id |-> <<"7">>, prediction |-> <<"b">>],
      [ground_truth |-> <<"b">>] }

MaxBatch == 3

Batches == UNION {[1..n -> Samples] : n \in 0..MaxBatch}

(* Inputs: batches of many samples of four kinds *)

(* extraction finds the idiom the raw response misses *)
HelpedSample ==
    Sample(<<"1">>, <<"b", " ", "c", " ", "d">>,
           <<"\"", "b", " ", "c", " ", "d", "\"", " ", "x">>)

(* the raw response is the idiom and extraction cuts it *)
HurtSample ==
    Sample(<<"2">>, <<"a", "b", " ", "i", "d", "i", "o", "m">>,
           <<"a", "b", " ", "i", "d", "i", "o", "m">>)

(* wrong with and without extraction *)
MissedSample == Sample(<<"3">>, <<"b", " ", "c", " ", "d">>, <<"b", " ", "x", " ", "y">>)

(* right with and without extraction *)
MatchedSample == Sample(<<"4">>, <<"b", " ", "c", " ", "d">>, <<"b", " ", "c", " ", "d">>)

MaxRun == 22

Run(sample, k) == [i \in 1..k |-> sample]

(* a run of helped, a run of hurt and a run of missed samples, with or *)
(* without a sample at the end that is right both ways                *)
ImpactBatches ==
    {Run(HelpedSample, t[1]) \o Run(HurtSample, t[2]) \o Run(MissedSample, t[3])
         \o Run(MatchedSample, t[4]) :
         t \in {u \in (0..MaxRun) \X (0..MaxRun) \X (0..MaxRun) \X (0..1) :
                   u[1] + u[2] + u[3] + u[4] <= MaxRun}}

----------------------------------------------------------------------------
(* evaluate *)

Raised(exception) == [raised |-> exception]

IsRaised(r) == "raised" \in DOMAIN r

(* a / n if n else 0 *)
RatioOrZero(a, n) == IF n > 0 THEN Ratio(a, n) ELSE FloatZero

(* sum(1 for x, y in zip(xs, ys) if x == y) *)
CountEqual(xs, ys) == Cardinality({i \in 1..Len(xs) : xs[i] = ys[i]})

(* sum(xs) of floats: left to right from 0 *)
RECURSIVE FloatSumTo(_, _)
FloatSumTo(xs, n) == IF n = 0 THEN FloatZero ELSE FloatAdd(FloatSumTo(xs, n - 1), xs[n])

FloatSum(xs) == FloatSumTo(xs, Len(xs))

(* what sklearn's accuracy_score does with no samples: the mean of nothing is
   nan, and releases that validate the sample count raise instead *)
EmptyAccuracy == {NaN, Raised("ValueError")}

(* sklearn.metrics.accuracy_score: the fraction of positions that are equal *)
accuracy_score(y_true, y_pred, empty) ==
    IF Len(y_true) = 0 THEN empty
    ELSE Ratio(CountEqual(y_true, y_pred), Len(y_true))

(* y_true and y_pred as the loop builds them *)
GroundTruths(batch) == [i \in 1..Len(batch) |-> batch[i].ground_truth]

RawPredictions(batch) == [i \in 1..Len(batch) |-> batch[i].prediction]

(* the predictions that are scored: extracted when extraction is on *)
eval_predictions(batch, extraction_on) ==
    [i \in 1..Len(batch) |-> IF extraction_on THEN extract_idiom(batch[i].prediction)
                             ELSE batch[i].prediction]

(* [normalize_idiom(t) for t in ts] *)
NormalizeAll(ts) == [i \in 1..Len(ts) |-> normalize_idiom(ts[i])]

(* [calculate_token_f1(gt, pred) for gt, pred in zip(y_true, predictions)] *)
TokenF1s(y_true, predictions) ==
    [i \in 1..Len(y_true) |-> calculate_token_f1(y_true[i], predictions[i])]

(* the per-sample F1 scores, in batch order *)
token_f1s(batch, extraction_on) ==
    TokenF1s(GroundTruths(batch), eval_predictions(batch, extraction_on))

(* sum(token_f1s) / len(token_f1s) if token_f1s else 0.0 *)
MacroF1(f1s) ==
    IF Len(f1s) > 0 THEN FloatDiv(FloatSum(f1s), FloatOfInt(Len(f1s))) ELSE FloatZero

(* the metrics dict as it is first built; the formatted strings are left out *)
BaseMetrics(n, exact_matches, exact_match, raw_accuracy, extraction_on) ==
    [total_samples |-> n,
     exact_matches |-> exact_matches,
     exact_match_accuracy |-> exact_match,
     raw_accuracy |-> raw_accuracy,
     extraction_enabled |-> extraction_on]

(* the comparison with the scored predictions taken for the raw ones *)
WithExtractionScored(m, extraction_on, exact_match, raw_exact_matches, raw_exact_match) ==
    IF extraction_on
    THEN m @@ [raw_exact_matches |-> m.exact_matches,
               raw_exact_match_accuracy |-> exact_match,
               extraction_improvement |-> FloatSub(exact_match, exact_match)]
    ELSE m

(* if use_extraction: the comparison with the raw predictions *)
WithExtraction(m, extraction_on, exact_match, raw_exact_matches, raw_exact_match) ==
    IF extraction_on
    THEN m @@ [raw_exact_matches |-> raw_exact_matches,
               raw_exact_match_accuracy |-> raw_exact_match,
               extraction_improvement |-> FloatSub(exact_match, raw_exact_match)]
    ELSE m

(* if use_f1: metrics["macro_f1"] = macro_f1 *)
WithF1(m, f1_on, macro_f1) == IF f1_on THEN m @@ [macro_f1 |-> macro_f1] ELSE m

(* evaluate from the exact-match counts on *)
EvaluateCounts(n, exact_matches, raw_exact_matches, raw_accuracy, f1s, f1_on, extraction_on) ==
    IF IsRaised(raw_accuracy) THEN raw_accuracy
    ELSE WithF1(WithExtraction(BaseMetrics(n, exact_matches,
                                           RatioOrZero(exact_matches, n),
                                           raw_accuracy, extraction_on),
                               extraction_on,
                               RatioOrZero(exact_matches, n),
                               raw_exact_matches,
                               RatioOrZero(raw_exact_matches, n)),
                f1_on, MacroF1(f1s))

(* evaluate from the normalized lists on *)
EvaluateNormalized(y_true, predictions, normalized_true, normalized_pred, raw_normalized_pred, empty, f1_on, extraction_on) ==
    EvaluateCounts(Len(normalized_true),
                   CountEqual(normalized_true, normalized_pred),
                   CountEqual(normalized_true, raw_normalized_pred),
                   accuracy_score(y_true, predictions, empty),
                   TokenF1s(y_true, predictions), f1_on, extraction_on)

(* evaluate from the lists of the loop on *)
EvaluateLists(y_true, y_pred, predictions, empty, f1_on, extraction_on) ==
    EvaluateNormalized(y_true, predictions, NormalizeAll(y_true),
                       NormalizeAll(predictions), NormalizeAll(y_pred),
                       empty, f1_on, extraction_on)

evaluate(batch, f1_on, extraction_on, empty) ==
    IF \E i \in 1..Len(batch) : ~WellFormed(batch[i]) THEN Raised("KeyError")
    ELSE EvaluateLists(GroundTruths(batch), RawPredictions(batch),
                       eval_predictions(batch, extraction_on),
                       empty, f1_on, extraction_on)

----------------------------------------------------------------------------
(* debug_results.py *)

DigitChars == <<"0", "1", "2", "3", "4", "5", "6", "7", "8", "9">>

(* str(n), n >= 0 *)
RECURSIVE IntToStr(_)
IntToStr(n) ==
    IF n < 10 THEN <<DigitChars[n + 1]>> ELSE IntToStr(n \div 10) \o <<DigitChars[(n % 10) + 1]>>

SamplePrefix == <<"s", "a", "m", "p", "l", "e", "_">>

(* the two flags without the other match taken into account *)
ExtractionFlagsAlone(raw_match, extracted_match) ==
    [extraction_helped |-> extracted_match, extraction_hurt |-> raw_match]

(* extraction_helped and extraction_hurt of a sample *)
ExtractionFlags(raw_match, extracted_match) ==
    [extraction_helped |-> extracted_match /\ ~raw_match,
     extraction_hurt |-> raw_match /\ ~extracted_match]

(* sample.get("image_id", f"sample_{sample_id}") *)
ImageId(sample, sample_id) ==
    IF "image_id" \in DOMAIN sample THEN sample.image_id
    ELSE SamplePrefix \o IntToStr(sample_id)

(* the returned dict *)
DebugInfo(sample_id, image_id, truth, raw_prediction, extracted_prediction, normalized_gt, normalized_raw, normalized_pred, raw_match, extracted_match, flags) ==
    [sample_id |-> sample_id,
     image_id |-> image_id,
     ground_truth |-> truth,
     raw_prediction |-> raw_prediction,
     extracted_prediction |-> extracted_prediction,
     normalized_gt |-> normalized_gt,
     normalized_raw |-> normalized_raw,
     normalized_extracted |-> normalized_pred,
     raw_match |-> raw_match,
     extracted_match |-> extracted_match,
     extraction_helped |-> flags.extraction_helped,
     extraction_hurt |-> flags.extraction_hurt]

(* debug_extraction_for_sample from the normalized texts on *)
DebugNormalized(sample_id, image_id, truth, raw_prediction, extracted_prediction, normalized_gt, normalized_raw, normalized_pred) ==
    DebugInfo(sample_id, image_id, truth, raw_prediction, extracted_prediction,
              normalized_gt, normalized_raw, normalized_pred,
              normalized_gt = normalized_raw, normalized_gt = normalized_pred,
              ExtractionFlags(normalized_gt = normalized_raw,
                              normalized_gt = normalized_pred))

(* debug_extraction_for_sample from the extraction on *)
DebugExtracted(sample_id, image_id, truth, raw_prediction, extracted_prediction) ==
    DebugNormalized(sample_id, image_id, truth, raw_prediction, extracted_prediction,
                    normalize_idiom(truth), normalize_idiom(raw_prediction),
                    normalize_idiom(extracted_prediction))

debug_extraction_for_sample(sample, sample_id) ==
    IF ~WellFormed(sample) THEN Raised("KeyError")
    ELSE DebugExtracted(sample_id, ImageId(sample, sample_id), sample.ground_truth,
                        sample.prediction, extract_idiom(sample.prediction))

(* sum(1 for r in rs if r[flag]) *)
CountFlag(rs, flag) == Cardinality({i \in 1..Len(rs) : rs[i][flag]})

(* a / b of two ints, b > 0 *)
SignedRatio(a, b) == IF a < 0 THEN Negate(Ratio(-a, b)) ELSE Ratio(a, b)

(* the returned dict with the hurt samples left out of the net count *)
AnalysisHelpedOnly(total_samples, raw_correct, extracted_correct, extraction_helped, extraction_hurt) ==
    [total_samples |-> total_samples,
     raw_accuracy |-> RatioOrZero(raw_correct, total_samples),
     extracted_accuracy |-> RatioOrZero(extracted_correct, total_samples),
     extraction_helped_count |-> extraction_helped,
     extraction_hurt_count |-> extraction_hurt,
     net_improvement |-> extraction_helped,
     improvement_rate |-> IF total_samples > 0
                          THEN SignedRatio(extracted_correct - raw_correct, total_samples)
                          ELSE FloatZero]

(* the returned dict *)
Analysis(total_samples, raw_correct, extracted_correct, extraction_helped, extraction_hurt) ==
    [total_samples |-> total_samples,
     raw_accuracy |-> RatioOrZero(raw_correct, total_samples),
     extracted_accuracy |-> RatioOrZero(extracted_correct, total_samples),
     extraction_helped_count |-> extraction_helped,
     extraction_hurt_count |-> extraction_hurt,
     net_improvement |-> extraction_helped - extraction_hurt,
     improvement_rate |-> IF total_samples > 0
                          THEN SignedRatio(extracted_correct - raw_correct, total_samples)
                          ELSE FloatZero]

analyze_extraction_performance(rs) ==
    Analysis(Len(rs), CountFlag(rs, "raw_match"), CountFlag(rs, "extracted_match"),
             CountFlag(rs, "extraction_helped"), CountFlag(rs, "extraction_hurt"))

----------------------------------------------------------------------------
(* src/test/debug_results.py: the script's own extraction and              *)
(* normalization, and its loop over the first samples of a results file.   *)
(* The names of the script that evaluate.py also defines carry the prefix  *)
(* script_.                                                                *)

(* c.upper(), as the sequence of its characters *)
UpperOf(c) ==
    IF c = "ß" THEN <<"S", "S">>
    ELSE IF c = "µ" THEN <<CapitalMu>>
    ELSE IF c = "ÿ" THEN <<CapitalYDiaeresis>>
    ELSE IF \E u \in DOMAIN LowerOf : LowerOf[u] = c
    THEN <<CHOOSE u \in DOMAIN LowerOf : LowerOf[u] = c>>
    ELSE <<c>>

(* s.upper() *)
upper(s) == Concat([i \in 1..Len(s) |-> UpperOf(s[i])])

TerminalPunct == {".", ",", "!", "?", ";", ":"}

(* re.sub(r'[.,!?;:]*$', '', s): the trailing run of punctuation goes; s *)
(* does not end in a line break here                                      *)
StripTerminal(s) ==
    LET keep == {k \in 1..Len(s) : s[k] \notin TerminalPunct}
    IN  IF keep = {} THEN <<>> ELSE SubSeq(s, 1, Max(keep))

W_the == <<"t", "h", "e">>

(* re.sub(r'^(the\s+)?', '', s, flags=re.IGNORECASE) *)
StripThe(s) ==
    IF MatchAtCI(s, 1, W_the) /\ Len(s) > 3 /\ IsSpace(s[4])
    THEN From(s, SkipSpace(s, 4))
    ELSE s

script_clean_extracted_idiom(idiom) ==
    IF idiom = <<>> THEN <<>> ELSE StripTerminal(StripThe(strip(idiom)))

script_normalize_idiom(idiom) ==
    IF idiom = <<>> THEN <<>>
    ELSE strip(CollapseSpace(StripTerminal(StripArticle(strip(lower(idiom))))))

description_words ==
    << <<"w", "o", "r", "d">>,
       <<"l", "e", "t", "t", "e", "r">>,
       <<"i", "m", "a", "g", "e">>,
       <<"p", "u", "z", "z", "l", "e">>,
       <<"s", "h", "o", "w", "s">>,
       <<"w", "r", "i", "t", "t", "e", "n">>,
       <<"d", "r", "a", "w", "n">>,
       <<"d", "e", "p", "i", "c", "t", "s">>,
       <<"r", "e", "p", "r", "e", "s", "e", "n", "t", "s">>,
       <<"v", "i", "s", "u", "a", "l">>,
       <<"g", "r", "a", "p", "h", "i", "c">>,
       <<"p", "i", "c", "t", "u", "r", "e">>,
       <<"i", "l", "l", "u", "s", "t", "r", "a", "t", "i", "o", "n">>,
       <<"s", "t", "a", "c", "k", "e", "d">>,
       <<"p", "o", "s", "i", "t", "i", "o", "n", "e", "d">>,
       <<"p", "l", "a", "c", "e", "d">>,
       <<"a", "r", "r", "a", "n", "g", "e", "d">>,
       <<"t", "i", "m", "e", "s">>,
       <<"b", "o", "t", "t", "o", "m">>,
       <<"t", "o", "p">>,
       <<"l", "e", "f", "t">>,
       <<"r", "i", "g", "h", "t">>,
       <<"c", "o", "r", "n", "e", "r">>,
       <<"a", "b", "o", "v", "e">>,
       <<"b", "e", "l", "o", "w">>,
       <<"l", "i", "n", "e">>,
       <<"n", "u", "m", "b", "e", "r">> >>

script_is_description_text(t) ==
    IF t = <<>> THEN TRUE
    ELSE IF \E k \in 1..Len(description_words) : contains(lower(t), description_words[k]) THEN TRUE
    ELSE IF Len(split(t)) = 1 /\ upper(t) = t THEN TRUE
    ELSE FALSE

(* re.search(r'\w+\s+the\s+\w+', s): a word character, whitespace, "the", *)
(* whitespace, a word character                                           *)
WordTheWord(s) ==
    \E k \in 1..Len(s) :
        /\ IsWord(s[k])
        /\ SkipSpace(s, k + 1) > k + 1
        /\ MatchAt(s, SkipSpace(s, k + 1), W_the)
        /\ SkipSpace(s, SkipSpace(s, k + 1) + 3) > SkipSpace(s, k + 1) + 3
        /\ SkipSpace(s, SkipSpace(s, k + 1) + 3) <= Len(s)
        /\ IsWord(s[SkipSpace(s, SkipSpace(s, k + 1) + 3)])

IdiomPrepositions ==
    << <<"i", "n">>,
       <<"o", "n">>,
       <<"u", "n", "d", "e", "r">>,
       <<"o", "v", "e", "r">>,
       <<"u", "p">>,
       <<"d", "o", "w", "n">>,
       <<"o", "u", "t">>,
       <<"o", "f", "f">> >>

IdiomVerbs ==
    << <<"b", "r", "e", "a", "k">>,
       <<"c", "u", "t">>,
       <<"k", "i", "c", "k">>,
       <<"j", "u", "m", "p">>,
       <<"t", "h", "r", "o", "w">>,
       <<"c", "a", "t", "c", "h">>,
       <<"h", "i", "t">>,
       <<"r", "u", "n">>,
       <<"g", "e", "t">>,
       <<"p", "u", "t">>,
       <<"t", "a", "k", "e">> >>

(* re.search(r'\b\w+\s+(in|on|...)\s+', s) *)
WordPreposition(s) ==
    \E k \in 1..Len(s) : \E p \in 1..Len(IdiomPrepositions) :
        /\ IsWord(s[k])
        /\ SkipSpace(s, k + 1) > k + 1
        /\ MatchAt(s, SkipSpace(s, k + 1), IdiomPrepositions[p])
        /\ SkipSpace(s, k + 1) + Len(IdiomPrepositions[p]) <= Len(s)
        /\ IsSpace(s[SkipSpace(s, k + 1) + Len(IdiomPrepositions[p])])

(* re.search(r'\b(break|cut|...)\s+', s) *)
VerbStart(s) ==
    \E i \in 1..Len(s) : \E v \in 1..Len(IdiomVerbs) :
        /\ MatchAt(s, i, IdiomVerbs[v])
        /\ WordBoundary(s, i)
        /\ i + Len(IdiomVerbs[v]) <= Len(s)
        /\ IsSpace(s[i + Len(IdiomVerbs[v])])

ScriptMinChars == 3

ScriptMaxChars == 50

script_is_likely_idiom(t) ==
    IF t = <<>> THEN FALSE
    ELSE IF Len(strip(lower(t))) < ScriptMinChars \/ Len(strip(lower(t))) > ScriptMaxChars THEN FALSE
    ELSE IF WordTheWord(strip(lower(t))) THEN TRUE
    ELSE IF WordPreposition(strip(lower(t))) THEN TRUE
    ELSE IF VerbStart(strip(lower(t))) THEN TRUE
    ELSE Len(split(t)) >= 2

ScoreVerbs ==
    << <<"k", "i", "c", "k">>,
       <<"j", "u", "m", "p">>,
       <<"c", "u", "t">>,
       <<"b", "r", "e", "a", "k">>,
       <<"t", "h", "r", "o", "w">> >>

ScorePrepositions ==
    << <<"u", "n", "d", "e", "r">>,
       <<"o", "v", "e", "r">>,
       <<"i", "n">>,
       <<"o", "n">>,
       <<"o", "u", "t">> >>

ScoreDescriptions ==
    << <<"w", "o", "r", "d">>,
       <<"l", "e", "t", "t", "e", "r">>,
       <<"s", "h", "o", "w", "s">>,
       <<"d", "e", "p", "i", "c", "t", "s">> >>

(* any(word in s for word in words) *)
ContainsAny(s, words) == \E k \in 1..Len(words) : contains(s, words[k])

(* the score the script gives one candidate *)
ScriptScore(candidate) ==
    (IF WordTheWord(lower(candidate)) THEN 10 ELSE 0)
    + (IF ContainsAny(lower(candidate), ScoreVerbs) THEN 5 ELSE 0)
    + (IF ContainsAny(lower(candidate), ScorePrepositions) THEN 3 ELSE 0)
    - (IF ContainsAny(lower(candidate), ScoreDescriptions) THEN 10 ELSE 0)
    + (IF Len(split(candidate)) >= 2 /\ Len(split(candidate)) <= 5 THEN Len(split(candidate)) ELSE 0)

ScriptScored(candidates) ==
    [k \in 1..Len(candidates) |-> <<ScriptScore(candidates[k]), candidates[k]>>]

script_select_best_idiom_candidate(candidates) ==
    IF candidates = <<>> THEN <<>>
    ELSE IF Len(candidates) = 1 THEN candidates[1]
    ELSE SortScored(ScriptScored(candidates))[1][2]

ContextWords ==
    << <<"i", "d", "i", "o", "m">>,
       <<"a", "n", "s", "w", "e", "r">>,
       <<"r", "e", "p", "r", "e", "s", "e", "n", "t", "s">>,
       <<"s", "o", "l", "u", "t", "i", "o", "n">>,
       <<"p", "u", "z", "z", "l", "e">> >>

ThereforeWords ==
    << <<"s", "u", "g", "g", "e", "s", "t", "s">>,
       <<"t", "h", "e", "r", "e", "f", "o", "r", "e">> >>

W_is == <<"i", "s">>

TwoStars == <<"*", "*">>

ScriptQuotes == {"\"", "'"}

ColonSpace == Whitespace \cup {":"}

(* the first index >= i of s that holds neither a colon nor whitespace, *)
(* Len(s)+1 if none                                                     *)
SkipColonSpace(s, i) ==
    LET at == {k \in i..Len(s) : s[k] \notin ColonSpace}
    IN  IF at = {} THEN Len(s) + 1 ELSE Min(at)

(* the index after \s*(?:is)?[:\s]+ matched at p when what follows starts *)
(* with a quote or a star, 0 when there is no such match                   *)
IntroEnd(s, p) ==
    IF MatchAtCI(s, SkipSpace(s, p), W_is)
    THEN (IF Len(s) >= SkipSpace(s, p) + 2 /\ s[SkipSpace(s, p) + 2] \in ColonSpace
          THEN SkipColonSpace(s, SkipSpace(s, p) + 2)
          ELSE 0)
    ELSE IF p <= Len(s) /\ s[p] \in ColonSpace
         THEN SkipColonSpace(s, p)
    ELSE 0

(* <<first, last>> of the group of a tail matched at e, <<>> when it does *)
(* not match; tail 1 is \*\*["']?([^"'*\n]+)["']?\*\*, tail 2 is           *)
(* ["']([^"'.\n]+)["'], tail 3 is \*\*([^*\n]+)\*\*                        *)
TailBold(s, e, g0, g1) ==
    IF g1 > g0 /\ MatchAt(s, IF g1 <= Len(s) /\ s[g1] \in ScriptQuotes THEN g1 + 1 ELSE g1, TwoStars)
    THEN <<g0, g1 - 1>> ELSE <<>>

TailGroup(s, e, tail) ==
    IF e < 1 \/ e > Len(s) THEN <<>>
    ELSE IF tail = 1
    THEN (IF ~MatchAt(s, e, TwoStars) THEN <<>>
          ELSE IF e + 2 <= Len(s) /\ s[e + 2] \in ScriptQuotes
          THEN TailBold(s, e, e + 3, SkipTo(s, e + 3, ScriptQuotes \cup {"*", "\n"}))
          ELSE TailBold(s, e, e + 2, SkipTo(s, e + 2, ScriptQuotes \cup {"*", "\n"})))
    ELSE IF tail = 2
    THEN (IF s[e] \in ScriptQuotes
             /\ SkipTo(s, e + 1, ScriptQuotes \cup {".", "\n"}) > e + 1
             /\ SkipTo(s, e + 1, ScriptQuotes \cup {".", "\n"}) <= Len(s)
             /\ s[SkipTo(s, e + 1, ScriptQuotes \cup {".", "\n"})] \in ScriptQuotes
          THEN <<e + 1, SkipTo(s, e + 1, ScriptQuotes \cup {".", "\n"}) - 1>>
          ELSE <<>>)
    ELSE (IF MatchAt(s, e, TwoStars)
             /\ SkipTo(s, e + 2, {"*", "\n"}) > e + 2
             /\ MatchAt(s, SkipTo(s, e + 2, {"*", "\n"}), TwoStars)
          THEN <<e + 2, SkipTo(s, e + 2, {"*", "\n"}) - 1>>
          ELSE <<>>)

(* the group of the match of (?:ContextWords)\s*(?:is)?[:\s]+ tail that *)
(* starts at i, <<>> when none starts there                              *)
ContextAt(s, i, tail) ==
    IF AltAt(s, i, ContextWords) = 0 THEN <<>>
    ELSE TailGroup(s, IntroEnd(s, i + AltAt(s, i, ContextWords)), tail)

(* where [:\s]+ may start after [^:]* matched from p on: [^:]* is greedy, *)
(* so the last start with a matching tail is taken                        *)
ThereforeStarts(s, p, tail) ==
    {m \in p..Min({SkipTo(s, p, {":"}), Len(s)}) :
        /\ s[m] \in ColonSpace
        /\ TailGroup(s, SkipColonSpace(s, m), tail) # <<>>}

(* the group of the tail behind the last of the starts *)
ThereforeGroup(s, starts, tail) ==
    IF starts = {} THEN <<>>
    ELSE TailGroup(s, SkipColonSpace(s, Max(starts)), tail)

(* the group of the match of (?:ThereforeWords)[^:]*[:\s]+ tail that *)
(* starts at i, <<>> when none starts there                           *)
ThereforeAt(s, i, tail) ==
    IF AltAt(s, i, ThereforeWords) = 0 THEN <<>>
    ELSE ThereforeGroup(s, ThereforeStarts(s, i + AltAt(s, i, ThereforeWords), tail), tail)

(* context_patterns[n] at i: the first three are the tails behind the *)
(* context words, the last two the first two tails behind "suggests"  *)
(* or "therefore"                                                     *)
ContextPatternAt(s, i, n) ==
    IF n <= 3 THEN ContextAt(s, i, n) ELSE ThereforeAt(s, i, n - 3)

ContextPatterns == 5

(* <<s[first..last]>> of a match <<first, last, ...>> *)
Group(s, hit) == <<SubSeq(s, hit[1], hit[2])>>

(* the group of the match of pattern n at the first of the starts *)
ContextFirstOf(s, n, starts) ==
    IF starts = {} THEN <<>> ELSE Group(s, ContextPatternAt(s, Min(starts), n))

(* re.findall(context_patterns[n], s, re.IGNORECASE)[:1] *)
ContextFirst(s, n) ==
    ContextFirstOf(s, n, {i \in 1..Len(s) : ContextPatternAt(s, i, n) # <<>>})

ScriptMinIdiom == 2

(* if len(idiom) > 2: return idiom *)
LongEnough(idiom) == IF Len(idiom) > ScriptMinIdiom THEN <<idiom>> ELSE <<>>

(* clean_extracted_idiom(matches[0]) when there is a match and it is long *)
(* enough                                                                 *)
ContextIdiom(matches) ==
    IF matches = <<>> THEN <<>> ELSE LongEnough(script_clean_extracted_idiom(matches[1]))

RECURSIVE ContextStage(_, _)
(* the rest of the loop after pattern n gave found *)
ContextNext(s, n, found) == IF found # <<>> THEN found ELSE ContextStage(s, n + 1)

(* the loop over context_patterns from pattern n on: <<idiom>> of the first *)
(* pattern whose first match is longer than two characters when cleaned     *)
ContextStage(s, n) ==
    IF n > ContextPatterns THEN <<>>
    ELSE ContextNext(s, n, ContextIdiom(ContextFirst(s, n)))

(* <<first, last, next>> of the match of \*\*["']([^"']+)["']?\*\* that  *)
(* starts at a, next being the index after the match; <<>> when none does *)
BoldQuotedAt(s, a) ==
    IF ~(MatchAt(s, a, TwoStars) /\ a + 2 <= Len(s) /\ s[a + 2] \in ScriptQuotes) THEN <<>>
    ELSE LET r == SkipTo(s, a + 3, ScriptQuotes)
             inner == {k \in (a + 4)..(r - 2) : MatchAt(s, k, TwoStars)}
         IN  IF r = a + 3 THEN <<>>
             ELSE IF r <= Len(s) /\ MatchAt(s, r + 1, TwoStars) THEN <<a + 3, r - 1, r + 3>>
             ELSE IF inner # {} THEN <<a + 3, Max(inner) - 1, Max(inner) + 2>>
             ELSE <<>>

(* the same for \*\*([^*]+)\*\* *)
BoldPlainAt(s, a) ==
    IF ~MatchAt(s, a, TwoStars) THEN <<>>
    ELSE LET g == SkipTo(s, a + 2, {"*"})
         IN  IF g > a + 2 /\ MatchAt(s, g, TwoStars) THEN <<a + 2, g - 1, g + 2>> ELSE <<>>

QuoteMinChars == 4

QuoteMaxChars == 30

(* the same for ["']([^"']{4,30})["'] *)
QuoteAt(s, a) ==
    IF ~(a <= Len(s) /\ s[a] \in ScriptQuotes) THEN <<>>
    ELSE LET r == SkipTo(s, a + 1, ScriptQuotes)
         IN  IF r <= Len(s) /\ r - (a + 1) >= QuoteMinChars /\ r - (a + 1) <= QuoteMaxChars
             THEN <<a + 1, r - 1, r + 1>> ELSE <<>>

(* bold_patterns[0], bold_patterns[1] and the quote pattern at a *)
ScanAt(s, a, pattern) ==
    IF pattern = 1 THEN BoldQuotedAt(s, a)
    ELSE IF pattern = 2 THEN BoldPlainAt(s, a)
    ELSE QuoteAt(s, a)

RECURSIVE ScanFrom(_, _, _)
(* the group of the match hit and the matches behind it *)
ScanOn(s, hit, pattern) == Group(s, hit) \o ScanFrom(s, hit[3], pattern)

ScanFirst(s, starts, pattern) ==
    IF starts = {} THEN <<>> ELSE ScanOn(s, ScanAt(s, Min(starts), pattern), pattern)

(* re.findall(pattern, s) from index i on *)
ScanFrom(s, i, pattern) ==
    ScanFirst(s, {a \in i..Len(s) : ScanAt(s, a, pattern) # <<>>}, pattern)

ScriptCleanAll(ms) ==
    IF ms = <<>> THEN <<>>
    ELSE [k \in 1..Len(ms) |-> script_clean_extracted_idiom(ms[k])]

ScriptNotDescription(cleaned) == ~script_is_description_text(cleaned)

ScriptLikely(cleaned) == script_is_likely_idiom(cleaned) /\ ~script_is_description_text(cleaned)

(* valid_matches of a bold pattern *)
BoldValid(s, pattern) == SelectSeq(ScriptCleanAll(ScanFrom(s, 1, pattern)), ScriptNotDescription)

(* valid_matches of the quote pattern *)
QuoteValid(s) == SelectSeq(ScriptCleanAll(ScanFrom(s, 1, 3)), ScriptLikely)

(* if idiom: return idiom *)
Truthy(idiom) == IF idiom = <<>> THEN <<>> ELSE <<idiom>>

(* if valid_matches: idiom = select_best_idiom_candidate(valid_matches); *)
(* if idiom: return idiom                                                 *)
ScriptBest(valid_matches) ==
    IF valid_matches = <<>> THEN <<>>
    ELSE Truthy(script_select_best_idiom_candidate(valid_matches))

FallbackChars == 50

(* text[:50].lower().strip() *)
ScriptFallback(s) == strip(lower(SubSeq(s, 1, Min({Len(s), FallbackChars}))))

(* the first of the results of the stages, each <<idiom>> or <<>> *)
FirstResult(stages, last) ==
    IF \E k \in 1..Len(stages) : stages[k] # <<>>
    THEN stages[Min({k \in 1..Len(stages) : stages[k] # <<>>})][1]
    ELSE last

(* extract_idiom of the script *)
script_extract_idiom(pred) ==
    IF pred = <<>> THEN <<>>
    ELSE FirstResult(<<ContextStage(strip(pred), 1),
                       ScriptBest(BoldValid(strip(pred), 1)),
                       ScriptBest(BoldValid(strip(pred), 2)),
                       ScriptBest(QuoteValid(strip(pred)))>>,
                     ScriptFallback(strip(pred)))

(* extract_idiom raises NameError: the first __main__ block of the file   *)
(* runs before is_description_text and is_likely_idiom are defined, and   *)
(* the bold and quote stages call them on their first match               *)
EarlyNameError(pred) ==
    /\ pred # <<>>
    /\ ContextStage(strip(pred), 1) = <<>>
    /\ \E pattern \in 1..3 : ScanFrom(strip(pred), 1, pattern) # <<>>

(* partial_match = ground_truth in normalized_pred or normalized_pred in *)
(* ground_truth                                                          *)
partial_match_one_way(truth, normalized_pred) == contains(normalized_pred, truth)

partial_match(truth, normalized_pred) ==
    contains(normalized_pred, truth) \/ contains(truth, normalized_pred)

(* results[:10] *)
SampleLimit == 10

sample_size(batch) == Min({SampleLimit, Len(batch)})

(* the error of the first of the results bad that end in one, and of the *)
(* report when there is none                                             *)
FirstError(batch, bad) ==
    IF bad # {}
    THEN (IF "prediction" \notin DOMAIN batch[Min(bad)] THEN "KeyError" ELSE "NameError")
    ELSE IF Len(batch) = 0 THEN "ZeroDivisionError"
    ELSE ""

(* analyze_prediction_patterns and the report of its counts: the error it *)
(* ends in, "" when it ends in none.  The counts are printed only.        *)
PatternsError(batch, defined) ==
    FirstError(batch, {k \in 1..Len(batch) :
                          \/ "prediction" \notin DOMAIN batch[k]
                          \/ (~defined /\ EarlyNameError(batch[k].prediction))})

(* the lines of the loop over results[:10] for one result *)
CompareInfo(truth, extracted, normalized_pred) ==
    [ground_truth |-> truth,
     extracted |-> extracted,
     normalized_pred |-> normalized_pred,
     exact_match |-> truth = normalized_pred,
     partial_match |-> partial_match(truth, normalized_pred)]

CompareExtracted(truth, extracted) ==
    CompareInfo(truth, extracted, script_normalize_idiom(extracted))

compare_sample(result) ==
    IF ~({"image_id", "ground_truth", "prediction"} \subseteq DOMAIN result) THEN Raised("KeyError")
    ELSE CompareExtracted(script_normalize_idiom(result.ground_truth),
                          script_extract_idiom(result.prediction))

SuccessLimit == 5

(* the loop over the successful extractions: it reads every result until *)
(* it has printed five, and ends in KeyError at a result without a key   *)
(* it reads                                                              *)
RECURSIVE SuccessError(_, _, _)
SuccessError(batch, k, success_count) ==
    IF k > Len(batch) \/ success_count >= SuccessLimit THEN ""
    ELSE IF ~({"ground_truth", "prediction"} \subseteq DOMAIN batch[k]) THEN "KeyError"
    ELSE IF script_normalize_idiom(batch[k].ground_truth)
                = script_normalize_idiom(script_extract_idiom(batch[k].prediction))
    THEN (IF "image_id" \notin DOMAIN batch[k] THEN "KeyError"
          ELSE SuccessError(batch, k + 1, success_count + 1))
    ELSE SuccessError(batch, k + 1, success_count)

Hundred == FloatOfInt(100)

(* exact_matches / sample_size * 100 and partial_matches / sample_size * 100 *)
Estimates(exact_matches, partial_matches, size) ==
    [estimated_exact |-> FloatMul(Ratio(exact_matches, size), Hundred),
     estimated_partial |-> FloatMul(Ratio(partial_matches, size), Hundred)]

----------------------------------------------------------------------------
(* Inputs: the results files the script reads *)

UnrelatedSample ==
    Sample(<<"u", "1">>, <<"k", "i", "c", "k", " ", "t", "h", "e", " ", "b", "u", "c", "k", "e", "t">>,
             <<"c", "o", "m", "p", "l", "e", "t", "e", "l", "y", " ", "u", "n", "r", "e", "l", "a", "t", "e", "d", " ", "t", "e", "x", "t">>)

(* a complete miss, an answer in bold behind a keyword, a quoted answer
   with a word too many, a bold answer, an empty answer, a part of the
   answer, and two results that lack a key *)
ScriptSamples ==
    { UnrelatedSample,
      Sample(<<"u", "2">>, <<"p", "i", "e", "c", "e", " ", "o", "f", " ", "c", "a", "k", "e">>,
             <<"T", "h", "e", " ", "a", "n", "s", "w", "e", "r", " ", "i", "s", " ", "*", "*", "p", "i", "e", "c", "e", " ", "o", "f", " ", "c", "a", "k", "e", "*", "*">>),
      Sample(<<"u", "3">>, <<"s", "p", "i", "l", "l", " ", "t", "h", "e", " ", "b", "e", "a", "n", "s">>,
             <<"I", " ", "s", "e", "e", " ", "\"", "s", "p", "i", "l", "l", " ", "t", "h", "e", " ", "b", "e", "a", "n", "s", " ", "n", "o", "w", "\"", " ", "h", "e", "r", "e">>),
      Sample(<<"u", "4">>, <<"B", "r", "e", "a", "k", " ", "t", "h", "e", " ", "i", "c", "e", ".">>,
             <<"*", "*", "b", "r", "e", "a", "k", " ", "t", "h", "e", " ", "i", "c", "e", "*", "*">>),
      Sample(<<"u", "5">>, <<"a">>,
             <<>>),
      Sample(<<"u", "6">>, <<"k", "i", "c", "k", " ", "t", "h", "e", " ", "b", "u", "c", "k", "e", "t">>,
             <<"T", "h", "e", " ", "b", "u", "c", "k", "e", "t", "!">>),
      [image_id |-> <<"u", "7">>, ground_truth |-> <<"h", "o", "l", "d", " ", "o", "n">>],
      [ground_truth |-> <<"h", "o", "l", "d", " ", "o", "n">>, prediction |-> <<"h", "o", "l", "d", " ", "o", "n">>] }

MaxScriptBatch == 2

(* a file of more results than the loop reads, the last of them with or *)
(* without its ground truth                                             *)
LongBatches ==
    {[k \in 1..(SampleLimit + 1) |->
         IF k <= SampleLimit THEN UnrelatedSample ELSE last] :
        last \in {UnrelatedSample, [image_id |-> <<"u", "9">>, prediction |-> <<"x">>]}}

ScriptBatches ==
    UNION {[1..n -> ScriptSamples] : n \in 0..MaxScriptBatch} \cup LongBatches

----------------------------------------------------------------------------
(* extract_idiom on one response *)

Init ==
    /\ pc = "start" /\ text \in Responses /\ out = None /\ again = None
    /\ ground_truth = None /\ prediction = None /\ f1 = None
    /\ results = None /\ use_f1 = None /\ use_extraction = None /\ metrics = None
    /\ debug_results = None /\ analysis = None
    /\ candidate_list = None /\ exact_total = None /\ partial_total = None
    /\ helpers_defined = None /\ sample_index = None
    /\ client_type = None /\ attempt = None /\ backoff = None
    /\ calls = None /\ slept = None

Extract ==
    /\ pc = "start"
    /\ out' = ExtractOutcome(text)
    /\ pc' = "extracted"
    /\ UNCHANGED <<client_type, attempt, backoff, calls, slept, helpers_defined, sample_index, candidate_list, exact_total, partial_total, text, again, ground_truth, prediction, f1, results, use_f1,
                   use_extraction, metrics, debug_results, analysis>>

Next == Extract

Spec == Init /\ [][Next]_vars

----------------------------------------------------------------------------
(* extract_idiom on one response that holds several quoted phrases *)

InitQuoted ==
    /\ pc = "start" /\ text \in QuotedResponses /\ out = None /\ again = None
    /\ ground_truth = None /\ prediction = None /\ f1 = None
    /\ results = None /\ use_f1 = None /\ use_extraction = None /\ metrics = None
    /\ debug_results = None /\ analysis = None
    /\ candidate_list = None /\ exact_total = None /\ partial_total = None
    /\ helpers_defined = None /\ sample_index = None
    /\ client_type = None /\ attempt = None /\ backoff = None
    /\ calls = None /\ slept = None

NextQuoted == Extract

SpecQuoted == InitQuoted /\ [][NextQuoted]_vars

----------------------------------------------------------------------------
(* extract_idiom on one response that may reach the last return statement *)

InitFallback ==
    /\ pc = "start" /\ text \in FallbackTexts /\ out = None /\ again = None
    /\ ground_truth = None /\ prediction = None /\ f1 = None
    /\ results = None /\ use_f1 = None /\ use_extraction = None /\ metrics = None
    /\ debug_results = None /\ analysis = None
    /\ candidate_list = None /\ exact_total = None /\ partial_total = None
    /\ helpers_defined = None /\ sample_index = None
    /\ client_type = None /\ attempt = None /\ backoff = None
    /\ calls = None /\ slept = None

NextFallback == Extract

SpecFallback == InitFallback /\ [][NextFallback]_vars

----------------------------------------------------------------------------
(* normalize_idiom on one phrase, and on its own result *)

InitNormalize ==
    /\ pc = "start" /\ text \in Phrases /\ out = None /\ again = None
    /\ ground_truth = None /\ prediction = None /\ f1 = None
    /\ results = None /\ use_f1 = None /\ use_extraction = None /\ metrics = None
    /\ debug_results = None /\ analysis = None
    /\ candidate_list = None /\ exact_total = None /\ partial_total = None
    /\ helpers_defined = None /\ sample_index = None
    /\ client_type = None /\ attempt = None /\ backoff = None
    /\ calls = None /\ slept = None

Normalize ==
    /\ pc = "start"
    /\ out' = normalize_idiom(text)
    /\ pc' = "once"
    /\ UNCHANGED <<client_type, attempt, backoff, calls, slept, helpers_defined, sample_index, candidate_list, exact_total, partial_total, text, again, ground_truth, prediction, f1, results, use_f1,
                   use_extraction, metrics, debug_results, analysis>>

NormalizeAgain ==
    /\ pc = "once"
    /\ again' = normalize_idiom(out)
    /\ pc' = "twice"
    /\ UNCHANGED <<client_type, attempt, backoff, calls, slept, helpers_defined, sample_index, candidate_list, exact_total, partial_total, text, out, ground_truth, prediction, f1, results, use_f1,
                   use_extraction, metrics, debug_results, analysis>>

NextNormalize == Normalize \/ NormalizeAgain

SpecNormalize == InitNormalize /\ [][NextNormalize]_vars

----------------------------------------------------------------------------
(* calculate_token_f1 on one pair of phrases *)

InitF1 ==
    /\ pc = "start" /\ text = None /\ out = None /\ again = None
    /\ ground_truth \in F1Phrases /\ prediction \in F1Phrases /\ f1 = None
    /\ results = None /\ use_f1 = None /\ use_extraction = None /\ metrics = None
    /\ debug_results = None /\ analysis = None
    /\ candidate_list = None /\ exact_total = None /\ partial_total = None
    /\ helpers_defined = None /\ sample_index = None
    /\ client_type = None /\ attempt = None /\ backoff = None
    /\ calls = None /\ slept = None

Score ==
    /\ pc = "start"
    /\ f1' = calculate_token_f1(ground_truth, prediction)
    /\ pc' = "scored"
    /\ UNCHANGED <<client_type, attempt, backoff, calls, slept, helpers_defined, sample_index, candidate_list, exact_total, partial_total, text, out, again, ground_truth, prediction, results, use_f1,
                   use_extraction, metrics, debug_results, analysis>>

NextF1 == Score

SpecF1 == InitF1 /\ [][NextF1]_vars

----------------------------------------------------------------------------
(* normalize_idiom on one phrase with separators, and on its own result *)

InitCanonical ==
    /\ pc = "start" /\ text \in SeparatorPhrases /\ out = None /\ again = None
    /\ ground_truth = None /\ prediction = None /\ f1 = None
    /\ results = None /\ use_f1 = None /\ use_extraction = None /\ metrics = None
    /\ debug_results = None /\ analysis = None
    /\ candidate_list = None /\ exact_total = None /\ partial_total = None
    /\ helpers_defined = None /\ sample_index = None
    /\ client_type = None /\ attempt = None /\ backoff = None
    /\ calls = None /\ slept = None

NextCanonical == Normalize \/ NormalizeAgain

SpecCanonical == InitCanonical /\ [][NextCanonical]_vars

----------------------------------------------------------------------------
(* extract_idiom on answers with and without an intro keyword *)

InitIdentity ==
    /\ pc = "start" /\ text \in IdentityPhrases /\ out = None /\ again = None
    /\ ground_truth = None /\ prediction = None /\ f1 = None
    /\ results = None /\ use_f1 = None /\ use_extraction = None /\ metrics = None
    /\ debug_results = None /\ analysis = None
    /\ candidate_list = None /\ exact_total = None /\ partial_total = None
    /\ helpers_defined = None /\ sample_index = None
    /\ client_type = None /\ attempt = None /\ backoff = None
    /\ calls = None /\ slept = None

NextIdentity == Extract

SpecIdentity == InitIdentity /\ [][NextIdentity]_vars

----------------------------------------------------------------------------
(* clean_extracted_idiom on one raw match *)

InitClean ==
    /\ pc = "start" /\ text \in CleanTexts /\ out = None /\ again = None
    /\ ground_truth = None /\ prediction = None /\ f1 = None
    /\ results = None /\ use_f1 = None /\ use_extraction = None /\ metrics = None
    /\ debug_results = None /\ analysis = None
    /\ candidate_list = None /\ exact_total = None /\ partial_total = None
    /\ helpers_defined = None /\ sample_index = None
    /\ client_type = None /\ attempt = None /\ backoff = None
    /\ calls = None /\ slept = None

Clean ==
    /\ pc = "start"
    /\ out' = clean_extracted_idiom(text)
    /\ pc' = "cleaned"
    /\ UNCHANGED <<client_type, attempt, backoff, calls, slept, helpers_defined, sample_index, candidate_list, exact_total, partial_total, text, again, ground_truth, prediction, f1, results, use_f1,
                   use_extraction, metrics, debug_results, analysis>>

NextClean == Clean

SpecClean == InitClean /\ [][NextClean]_vars

----------------------------------------------------------------------------
(* is_description_text and is_likely_idiom on one text *)

InitClassify ==
    /\ pc = "start" /\ text \in ClassifierTexts /\ out = None /\ again = None
    /\ ground_truth = None /\ prediction = None /\ f1 = None
    /\ results = None /\ use_f1 = None /\ use_extraction = None /\ metrics = None
    /\ debug_results = None /\ analysis = None
    /\ candidate_list = None /\ exact_total = None /\ partial_total = None
    /\ helpers_defined = None /\ sample_index = None
    /\ client_type = None /\ attempt = None /\ backoff = None
    /\ calls = None /\ slept = None

Describe ==
    /\ pc = "start"
    /\ out' = is_description_text(text)
    /\ pc' = "described"
    /\ UNCHANGED <<client_type, attempt, backoff, calls, slept, helpers_defined, sample_index, candidate_list, exact_total, partial_total, text, again, ground_truth, prediction, f1, results, use_f1, use_extraction, metrics, debug_results, analysis>>

Judge ==
    /\ pc = "start"
    /\ out' = is_likely_idiom(text)
    /\ pc' = "judged"
    /\ UNCHANGED <<client_type, attempt, backoff, calls, slept, helpers_defined, sample_index, candidate_list, exact_total, partial_total, text, again, ground_truth, prediction, f1, results, use_f1, use_extraction, metrics, debug_results, analysis>>

NextClassify == Describe \/ Judge

SpecClassify == InitClassify /\ [][NextClassify]_vars

----------------------------------------------------------------------------
(* select_best_idiom_candidate on one list of candidates *)

InitSelect ==
    /\ pc = "start" /\ text = None /\ out = None /\ again = None
    /\ ground_truth = None /\ prediction = None /\ f1 = None
    /\ results = None /\ use_f1 = None /\ use_extraction = None /\ metrics = None
    /\ debug_results = None /\ analysis = None
    /\ candidate_list \in CandidateLists /\ exact_total = None /\ partial_total = None
    /\ helpers_defined = None /\ sample_index = None
    /\ client_type = None /\ attempt = None /\ backoff = None
    /\ calls = None /\ slept = None

Select ==
    /\ pc = "start"
    /\ out' = select_best_idiom_candidate(candidate_list)
    /\ pc' = "selected"
    /\ UNCHANGED <<client_type, attempt, backoff, calls, slept, helpers_defined, sample_index, candidate_list, exact_total, partial_total, text, again, ground_truth, prediction, f1, results, use_f1, use_extraction, metrics, debug_results, analysis>>

NextSelect == Select

SpecSelect == InitSelect /\ [][NextSelect]_vars

----------------------------------------------------------------------------
(* evaluate on one batch *)

InitEvaluate ==
    /\ pc = "start" /\ text = None /\ out = None /\ again = None
    /\ ground_truth = None /\ prediction = None /\ f1 = None
    /\ results \in Batches /\ use_f1 \in BOOLEAN /\ use_extraction \in BOOLEAN
    /\ metrics = None /\ debug_results = None /\ analysis = None
    /\ candidate_list = None /\ exact_total = None /\ partial_total = None
    /\ helpers_defined = None /\ sample_index = None
    /\ client_type = None /\ attempt = None /\ backoff = None
    /\ calls = None /\ slept = None

Evaluate ==
    /\ pc = "start"
    /\ \E empty \in EmptyAccuracy :
           metrics' = evaluate(results, use_f1, use_extraction, empty)
    /\ pc' = IF IsRaised(metrics') THEN "raised" ELSE "evaluated"
    /\ UNCHANGED <<client_type, attempt, backoff, calls, slept, helpers_defined, sample_index, candidate_list, exact_total, partial_total, text, out, again, ground_truth, prediction, f1, results, use_f1,
                   use_extraction, debug_results, analysis>>

NextEvaluate == Evaluate

SpecEvaluate == InitEvaluate /\ [][NextEvaluate]_vars

----------------------------------------------------------------------------
(* one scenario: extract_idiom on the response, evaluate on the sample *)

InitScenario ==
    /\ pc = "start" /\ out = None /\ again = None
    /\ \E c \in ScenarioCases :
           /\ text = c.raw
           /\ ground_truth = c.truth
           /\ results = <<Sample(ScenarioId, c.truth, c.raw)>>
    /\ prediction = None /\ f1 = None
    /\ use_f1 = TRUE /\ use_extraction \in BOOLEAN /\ metrics = None
    /\ debug_results = None /\ analysis = None
    /\ candidate_list = None /\ exact_total = None /\ partial_total = None
    /\ helpers_defined = None /\ sample_index = None
    /\ client_type = None /\ attempt = None /\ backoff = None
    /\ calls = None /\ slept = None

NextScenario == Extract \/ Evaluate

SpecScenario == InitScenario /\ [][NextScenario]_vars

----------------------------------------------------------------------------
(* src/test/debug_results.py on one results file: debug_results is run by *)
(* the first __main__ block of the file, before the functions below it    *)
(* are defined, and by the second, with all of them defined.  evaluate    *)
(* reads the same file.                                                   *)

InitScript ==
    /\ pc = "start" /\ text = None /\ out = None /\ again = None
    /\ ground_truth = None /\ prediction = None /\ f1 = None
    /\ results \in ScriptBatches /\ use_f1 = TRUE /\ use_extraction = TRUE
    /\ metrics = None /\ debug_results = None /\ analysis = None
    /\ candidate_list = None /\ exact_total = None /\ partial_total = None
    /\ helpers_defined \in BOOLEAN /\ sample_index = None
    /\ client_type = None /\ attempt = None /\ backoff = None
    /\ calls = None /\ slept = None

(* the state after analyze_prediction_patterns and its report: the error *)
(* they end in, or the counters of the loop at zero                      *)
StartSamples(error) ==
    IF error # ""
    THEN /\ pc' = "raised"
         /\ analysis' = Raised(error)
         /\ UNCHANGED <<exact_total, partial_total, sample_index>>
    ELSE /\ pc' = "samples"
         /\ exact_total' = 0
         /\ partial_total' = 0
         /\ sample_index' = 0
         /\ UNCHANGED analysis

(* debug_results up to the loop over the samples *)
BeginSamples ==
    /\ pc = "start"
    /\ StartSamples(PatternsError(results, helpers_defined))
    /\ UNCHANGED <<client_type, attempt, backoff, calls, slept, helpers_defined, candidate_list, text, out, again, ground_truth, prediction, f1, results, use_f1, use_extraction, metrics, debug_results>>

(* the counters after one result of the loop, or the KeyError of the result *)
CountSample(info) ==
    IF IsRaised(info)
    THEN /\ pc' = "raised"
         /\ analysis' = info
         /\ UNCHANGED <<out, exact_total, partial_total, sample_index>>
    ELSE /\ out' = info
         /\ exact_total' = exact_total + (IF info.exact_match THEN 1 ELSE 0)
         /\ partial_total' = partial_total + (IF info.partial_match THEN 1 ELSE 0)
         /\ sample_index' = sample_index + 1
         /\ UNCHANGED <<pc, analysis>>

(* one turn of the loop over results[:10] *)
CompareSample ==
    /\ pc = "samples"
    /\ sample_index < sample_size(results)
    /\ CountSample(compare_sample(results[sample_index + 1]))
    /\ UNCHANGED <<client_type, attempt, backoff, calls, slept, helpers_defined, candidate_list, text, again, ground_truth, prediction, f1, results, use_f1, use_extraction, metrics, debug_results>>

(* the estimates after the loop, and the loop over the successful *)
(* extractions                                                    *)
Estimate ==
    /\ pc = "samples"
    /\ sample_index = sample_size(results)
    /\ analysis' = Estimates(exact_total, partial_total, sample_size(results))
    /\ pc' = IF SuccessError(results, 1, 0) # "" THEN "raised" ELSE "estimated"
    /\ UNCHANGED <<client_type, attempt, backoff, calls, slept, helpers_defined, sample_index, candidate_list, exact_total, partial_total, text, out, again, ground_truth, prediction, f1, results, use_f1, use_extraction, metrics, debug_results>>

NextScript == BeginSamples \/ CompareSample \/ Estimate \/ Evaluate

SpecScript == InitScript /\ [][NextScript]_vars

----------------------------------------------------------------------------
(* debug_results.main on one batch: the loop over the samples, then the     *)
(* analysis                                                                 *)

InitDebug ==
    /\ pc = "start" /\ text = None /\ out = None /\ again = None
    /\ ground_truth = None /\ prediction = None /\ f1 = None
    /\ results \in Batches /\ use_f1 = None /\ use_extraction = None
    /\ metrics = None /\ debug_results = <<>> /\ analysis = None
    /\ candidate_list = None /\ exact_total = None /\ partial_total = None
    /\ helpers_defined = None /\ sample_index = None
    /\ client_type = None /\ attempt = None /\ backoff = None
    /\ calls = None /\ slept = None

(* debug_results.append(debug_info), or the KeyError of the sample *)
DebugAppend(debug_info) ==
    IF IsRaised(debug_info)
    THEN /\ pc' = "raised"
         /\ analysis' = debug_info
         /\ UNCHANGED debug_results
    ELSE /\ debug_results' = Append(debug_results, debug_info)
         /\ UNCHANGED <<pc, analysis>>

DebugSample ==
    /\ pc = "start"
    /\ Len(debug_results) < Len(results)
    /\ DebugAppend(debug_extraction_for_sample(results[Len(debug_results) + 1],
                                               Len(debug_results)))
    /\ UNCHANGED <<client_type, attempt, backoff, calls, slept, helpers_defined, sample_index, candidate_list, exact_total, partial_total, text, out, again, ground_truth, prediction, f1, results, use_f1,
                   use_extraction, metrics>>

Analyze ==
    /\ pc = "start"
    /\ Len(debug_results) = Len(results)
    /\ analysis' = analyze_extraction_performance(debug_results)
    /\ pc' = "analyzed"
    /\ UNCHANGED <<client_type, attempt, backoff, calls, slept, helpers_defined, sample_index, candidate_list, exact_total, partial_total, text, out, again, ground_truth, prediction, f1, results, use_f1,
                   use_extraction, metrics, debug_results>>

NextDebug == DebugSample \/ Analyze

SpecDebug == InitDebug /\ [][NextDebug]_vars

----------------------------------------------------------------------------
(* debug_results.main on batches of up to MaxRun samples *)

InitImpact ==
    /\ pc = "start" /\ text = None /\ out = None /\ again = None
    /\ ground_truth = None /\ prediction = None /\ f1 = None
    /\ results \in ImpactBatches /\ use_f1 = None /\ use_extraction = None
    /\ metrics = None /\ debug_results = <<>> /\ analysis = None
    /\ candidate_list = None /\ exact_total = None /\ partial_total = None
    /\ helpers_defined = None /\ sample_index = None
    /\ client_type = None /\ attempt = None /\ backoff = None
    /\ calls = None /\ slept = None

SpecImpact == InitImpact /\ [][NextDebug]_vars

----------------------------------------------------------------------------
(* models/base_client.py: BaseClient.generate *)

(* self.max_retries *)
max_retries == 3

(* None where a string is expected: a sequence that no string is *)
NoneObject == <<None>>

(* ' hit it ' *)
HitIt == <<" ", "h", "i", "t", " ", "i", "t", " ">>

(* What one call of the API does: it raises, or it gives a response.  A   *)
(* response is a record of the attributes it has: text (a string or      *)
(* NoneObject) and candidates (a list); a candidate may have a content,  *)
(* a content parts (a list) or a text, a part a text.  A record without  *)
(* the attribute that is asked for stands for an object without it, a    *)
(* content with neither parts nor text also for a content of None.       *)
Replies ==
    { [text |-> HitIt],
      [text |-> <<>>],
      [text |-> <<>>, candidates |-> <<[content |-> [parts |-> <<[text |-> HitIt]>>]]>>],
      [text |-> NoneObject,
       candidates |-> <<[content |-> [parts |-> <<[inline_data |-> "image"], [text |-> <<>>],
                                                  [text |-> HitIt]>>]]>>],
      [text |-> NoneObject, candidates |-> <<[content |-> [parts |-> <<>>, text |-> HitIt]]>>],
      [candidates |-> <<[content |-> [text |-> HitIt]]>>],
      [candidates |-> <<[content |-> [text |-> NoneObject]]>>],
      [candidates |-> <<[content |-> [role |-> "model"]]>>],
      [text |-> NoneObject, candidates |-> <<[finish_reason |-> "SAFETY"]>>],
      [text |-> <<>>, candidates |-> <<>>],
      [raises |-> "ConnectionError"],
      [raises |-> "ValueError"],
      [raises |-> "FileNotFoundError"],
      [raises |-> "KeyboardInterrupt"] }

(* the exceptions of the calls that except Exception catches *)
Exceptions == {"ConnectionError", "ValueError", "FileNotFoundError", "AttributeError"}

NoResponseText == <<"N", "o", " ", "r", "e", "s", "p", "o", "n", "s", "e", " ", "t", "e", "x", "t">>

(* a call that came back with a value *)
Returned(value) == [returned |-> value]

(* _generate_studio: response.text.strip() if response.text else ... *)
generate_studio(reply) ==
    IF "raises" \in DOMAIN reply THEN Raised(reply.raises)
    ELSE IF "text" \notin DOMAIN reply THEN Raised("AttributeError")
    ELSE IF reply.text # <<>> /\ reply.text # NoneObject THEN Returned(strip(reply.text))
    ELSE Returned(NoResponseText)

(* _generate_vertex: the text of the response, else the first text of the *)
(* parts of its first candidate or the text of that candidate's content   *)
generate_vertex(reply) ==
    LET Filled(v) == v # <<>> /\ v # NoneObject
        NotFound == Returned(NoResponseText \o <<" ", "f", "o", "u", "n", "d">>)
        OfParts(parts) ==
            LET texts == {k \in 1..Len(parts) :
                             "text" \in DOMAIN parts[k] /\ Filled(parts[k].text)}
            IN  IF texts = {} THEN NotFound
                ELSE Returned(strip(parts[Min(texts)].text))
        OfContent(content) ==
            IF "parts" \in DOMAIN content THEN OfParts(content.parts)
            ELSE IF "text" \notin DOMAIN content THEN NotFound
            ELSE IF content.text = NoneObject THEN Raised("AttributeError")
            ELSE Returned(strip(content.text))
    IN  IF "raises" \in DOMAIN reply THEN Raised(reply.raises)
        ELSE IF "text" \in DOMAIN reply /\ Filled(reply.text)
        THEN Returned(strip(reply.text))
        ELSE IF "candidates" \in DOMAIN reply /\ Len(reply.candidates) > 0
        THEN IF "content" \in DOMAIN reply.candidates[1]
             THEN OfContent(reply.candidates[1].content)
             ELSE NotFound
        ELSE NotFound

(* the body of the try statement *)
TryCall(type, reply) ==
    IF type = "studio" THEN generate_studio(reply) ELSE generate_vertex(reply)

(* backoff = 2 ** (attempt - 1) with the exponent one too high *)
BackoffDoubled(n) == 2 ^ n

(* backoff = 2 ** (attempt - 1) *)
Backoff(n) == 2 ^ (n - 1)

(* return response, or the except clause: the backoff before the next *)
(* attempt, or the raise of the last one; an exception that is no    *)
(* Exception leaves the loop at once                                 *)
Handle(result) ==
    /\ calls' = Append(calls, result)
    /\ IF ~IsRaised(result)
       THEN /\ pc' = "returned"
            /\ out' = result.returned
            /\ UNCHANGED backoff
       ELSE IF result.raised \in Exceptions /\ attempt < max_retries
       THEN /\ pc' = "sleeping"
            /\ backoff' = Backoff(attempt)
            /\ UNCHANGED out
       ELSE /\ pc' = "raised"
            /\ out' = result
            /\ UNCHANGED backoff

InitClient ==
    /\ pc = "calling" /\ text = None /\ out = None /\ again = None
    /\ ground_truth = None /\ prediction = None /\ f1 = None
    /\ results = None /\ use_f1 = None /\ use_extraction = None
    /\ metrics = None /\ debug_results = None /\ analysis = None
    /\ candidate_list = None /\ exact_total = None /\ partial_total = None
    /\ helpers_defined = None /\ sample_index = None
    /\ client_type \in {"studio", "vertex"} /\ attempt = 1 /\ backoff = None
    /\ calls = <<>> /\ slept = <<>>

(* one turn of the loop up to the return, the raise or the sleep *)
Attempt ==
    /\ pc = "calling"
    /\ \E reply \in Replies : Handle(TryCall(client_type, reply))
    /\ UNCHANGED <<client_type, attempt, slept, helpers_defined, sample_index, candidate_list, exact_total, partial_total, text, again, ground_truth, prediction, f1, results, use_f1,
                   use_extraction, metrics, debug_results, analysis>>

(* time.sleep(backoff) and the next value of the loop variable *)
Sleep ==
    /\ pc = "sleeping"
    /\ slept' = Append(slept, backoff)
    /\ attempt' = attempt + 1
    /\ pc' = "calling"
    /\ UNCHANGED <<client_type, backoff, calls, out, helpers_defined, sample_index, candidate_list, exact_total, partial_total, text, again, ground_truth, prediction, f1, results, use_f1,
                   use_extraction, metrics, debug_results, analysis>>

NextClient == Attempt \/ Sleep

SpecClient == InitClient /\ [][NextClient]_vars

(* the call of the API and the sleep both come to an end *)
FairClient == SpecClient /\ WF_vars(Attempt) /\ WF_vars(Sleep)

----------------------------------------------------------------------------
(* Properties of extract_idiom, under Spec *)

(* the response holds a {{{...}}} marker that pattern 1 finds *)
HasMarker(t) == BraceSearch(strip(t)) # <<>>

(* the content of the marker that pattern 1 finds *)
MarkerContent(t) == strip(BraceSearch(strip(t))[1])

(* the response holds a quoted span that pattern 2 finds *)
HasQuoted(t) == QuotedMatches(strip(t)) # <<>>

WordCount(t) == Len(split(t))

Trusted(t) == WordCount(t) >= MarkerMinWords /\ WordCount(t) <= MarkerMaxWords

(* C2 as stated: for every response that holds both a {{{...}}} marker and a
   quoted span, extract_idiom returns the marker's content, never the quoted
   text. *)
C2_MarkerAlwaysWins ==
    (pc = "extracted" /\ HasMarker(text) /\ HasQuoted(text)) =>
        /\ out.stage_used = "BRACKET_MARKER"
        /\ out.extracted_text \in
               {MarkerContent(text), clean_extracted_idiom(MarkerContent(text))}

(* C2 amended: for every response that holds both a {{{...}}} marker and a
   quoted span, the marker's content is returned before any quoted text
   whenever the marker stage accepts it: cleaned when the cleaned content is
   a likely idiom, as written when it is not but has 2 to 8 words.  In the
   remaining case the marker stage returns nothing and the quoted stage
   decides when it accepts a span. *)
C2_MarkerWinsWhenAccepted ==
    (pc = "extracted" /\ HasMarker(text) /\ HasQuoted(text)) =>
        LET X == MarkerContent(text)
            cleaned == clean_extracted_idiom(X)
            quoted == QuotedStage(strip(text))
        IN  IF is_likely_idiom(cleaned) THEN out = Outcome(cleaned, "BRACKET_MARKER")
            ELSE IF Trusted(X) THEN out = Outcome(X, "BRACKET_MARKER")
            ELSE /\ out.stage_used # "BRACKET_MARKER"
                 /\ quoted # <<>> => out = Outcome(quoted[1], "QUOTED")

(* a marker that is no likely idiom was returned although a quoted likely
   idiom stands in the same response *)
C2_MarkerBeatsQuote ==
    /\ pc = "extracted" /\ HasMarker(text) /\ HasQuoted(text)
    /\ QuotedStage(strip(text)) # <<>>
    /\ ~is_likely_idiom(clean_extracted_idiom(MarkerContent(text)))
    /\ out = Outcome(MarkerContent(text), "BRACKET_MARKER")

(* C3: extract_idiom returns a string whatever the response is: the empty
   string for an empty or blank response, and the cleaned response itself,
   from the last return statement, when none of the six patterns returns. *)
C3_FallbackTotality ==
    pc = "extracted" =>
        /\ DOMAIN out = {"extracted_text", "stage_used"}
        /\ out.stage_used \in Stages
        /\ out.extracted_text \in Seq(Range(text))
        /\ strip(text) = <<>> => out.extracted_text = <<>>
        /\ LET s == strip(text)
           IN  (/\ s # <<>>
                /\ BracketStage(s) = <<>> /\ QuotedStage(s) = <<>>
                /\ IntroStage(s) = <<>> /\ LineStage(s) = <<>>
                /\ SentenceStage(s) = <<>> /\ NgramStage(s) = <<>>)
               => out = Outcome(clean_extracted_idiom(s), "FALLBACK_RAW")

(* the last return statement gave a response that no pattern accepted *)
C3_FallbackReached ==
    /\ pc = "extracted"
    /\ out.stage_used = "FALLBACK_RAW"
    /\ out.extracted_text # <<>>

(* C10 as stated: when the response holds {{{X}}} and X has 2 to 8 words,
   extract_idiom returns the enclosed text X, also when it fails
   is_likely_idiom, and no later stage is consulted. *)
C10_MarkerContentTrusted ==
    (pc = "extracted" /\ HasMarker(text) /\ Trusted(MarkerContent(text))) =>
        /\ out.stage_used = "BRACKET_MARKER"
        /\ out.extracted_text = MarkerContent(text)

(* C10 amended: when the marker that pattern 1 finds holds 2 to 8 words, the
   marker stage returns and no later stage is consulted: the enclosed text
   as written when its cleaned form fails is_likely_idiom, and the cleaned
   form of the enclosed text when that passes. *)
C10_MarkerTrusted ==
    (pc = "extracted" /\ HasMarker(text) /\ Trusted(MarkerContent(text))) =>
        LET X == MarkerContent(text)
            cleaned == clean_extracted_idiom(X)
        IN  /\ out.stage_used = "BRACKET_MARKER"
            /\ out.extracted_text = IF is_likely_idiom(cleaned) THEN cleaned ELSE X

(* a marker of two words that is longer than a likely idiom may be was
   returned as written *)
C10_UnlikelyMarkerReturned ==
    /\ pc = "extracted" /\ HasMarker(text) /\ Trusted(MarkerContent(text))
    /\ Len(MarkerContent(text)) > MaxChars
    /\ ~is_likely_idiom(clean_extracted_idiom(MarkerContent(text)))
    /\ out = Outcome(MarkerContent(text), "BRACKET_MARKER")

(* the cleaned candidates of patterns 1 to 6, in the order each pattern
   visits them *)
StageCandidates(s) ==
    << IF BraceSearch(s) # <<>> /\ strip(BraceSearch(s)[1]) # <<>>
       THEN <<clean_extracted_idiom(strip(BraceSearch(s)[1]))>> ELSE <<>>,
       CleanAll(QuotedMatches(s)),
       CleanAll(StripAll(IntroMatches(s))),
       CleanAll(SelectSeq(LinesFrom(s, 1), NotDescription)),
       CleanAll(<<FirstSentence(s)>>),
       CleanAll(Ngrams(split(s))) >>

(* the stages in the order of the cascade *)
StageOrder ==
    <<"BRACKET_MARKER", "QUOTED", "KEYWORD_INTRO", "STANDALONE_LINE",
      "FIRST_SENTENCE", "NGRAM_SCAN">>

(* the candidates of stage k that pass is_likely_idiom *)
AcceptedAt(s, k) == SelectSeq(StageCandidates(s)[k], is_likely_idiom)

(* the marker of s is returned as written: no likely idiom, 2 to 8 words *)
MarkerAsWritten(s) ==
    /\ BraceSearch(s) # <<>>
    /\ AcceptedAt(s, 1) = <<>>
    /\ Trusted(strip(BraceSearch(s)[1]))

(* the result comes from the earliest stage with an accepted candidate, and
   from the last return when no stage has one *)
FromEarliestAccepted(s, o) ==
    LET accepting == {k \in 1..Len(StageOrder) : AcceptedAt(s, k) # <<>>}
    IN  IF accepting = {} THEN o = Outcome(clean_extracted_idiom(s), "FALLBACK_RAW")
        ELSE /\ o.stage_used = StageOrder[Min(accepting)]
             /\ o.extracted_text \in Range(AcceptedAt(s, Min(accepting)))

(* C11 as stated: the stages are tried in the order bracket marker, quoted
   text, keyword intro, standalone line, first sentence, n-gram scan,
   fallback, and the result always comes from the earliest stage that has a
   candidate passing is_likely_idiom. *)
C11_EarliestAcceptedStage ==
    (pc = "extracted" /\ strip(text) # <<>>) => FromEarliestAccepted(strip(text), out)

(* C11 amended: the stages are tried in that order and the result comes from
   the earliest stage that has a candidate passing is_likely_idiom, except
   that a marker whose content is no likely idiom but has 2 to 8 words is
   returned as written before any later stage is tried. *)
C11_EarliestAcceptedOrTrustedMarker ==
    (pc = "extracted" /\ strip(text) # <<>>) =>
        IF MarkerAsWritten(strip(text))
        THEN out = Outcome(strip(BraceSearch(strip(text))[1]), "BRACKET_MARKER")
        ELSE FromEarliestAccepted(strip(text), out)

(* the quoted stage returned although the keyword-intro stage has an
   accepted candidate of its own *)
C11_EarlierStageWins ==
    /\ pc = "extracted"
    /\ out.stage_used = "QUOTED"
    /\ AcceptedAt(strip(text), 3) # <<>>
    /\ out.extracted_text \notin Range(AcceptedAt(strip(text), 3))

----------------------------------------------------------------------------
(* Properties of the quoted-text stage, under SpecQuoted *)

RECURSIVE QuotedStartsFrom(_, _, _)
(* the index of the opening mark of every match of QuotedFrom(s, q, i) *)
QuotedStartsFrom(s, q, i) ==
    LET a == SkipTo(s, i, {q})
        b == SkipTo(s, a + 1, {q})
    IN  IF b > Len(s) THEN <<>>
        ELSE IF b = a + 1 THEN QuotedStartsFrom(s, q, a + 1)
        ELSE <<a>> \o QuotedStartsFrom(s, q, b + 1)

(* the quoted phrases of s, each with the pattern that finds it and the *)
(* place of its opening mark                                            *)
QuotedSpans(s) ==
    UNION {{[kind |-> k, start |-> QuotedStartsFrom(s, QuoteChars[k], 1)[n],
             phrase |-> QuotedFrom(s, QuoteChars[k], 1)[n]] :
               n \in 1..Len(QuotedFrom(s, QuoteChars[k], 1))} : k \in 1..Len(QuoteChars)}

(* those that clean to a likely idiom *)
AcceptedSpans(s) ==
    {p \in QuotedSpans(s) : is_likely_idiom(clean_extracted_idiom(p.phrase))}

(* the accepted phrase that stands first in the response *)
FirstAppearing(s) ==
    CHOOSE p \in AcceptedSpans(s) : \A r \in AcceptedSpans(s) : p.start <= r.start

(* the accepted phrase that is first by the kind of its marks, double,   *)
(* single, backtick, and first in the response among those of its kind   *)
FirstVisited(s) ==
    CHOOSE p \in AcceptedSpans(s) :
        \A r \in AcceptedSpans(s) :
            p.kind < r.kind \/ (p.kind = r.kind /\ p.start <= r.start)

(* the cleaned quoted phrases that are likely idioms, as the loops meet them *)
AcceptedQuoted(s) == SelectSeq(CleanAll(QuotedMatches(s)), is_likely_idiom)

(* C21: when a response without a marker holds several quoted phrases that
   pass the plausibility test, extract_idiom returns the one that
   select_best_idiom_candidate chooses among all of them. *)
C21_BestQuotedReturned ==
    (pc = "extracted" /\ ~HasMarker(text) /\ Len(AcceptedQuoted(strip(text))) >= 2) =>
        out.extracted_text = select_best_idiom_candidate(AcceptedQuoted(strip(text)))

(* a quoted phrase was returned although another accepted quoted phrase of
   the response has a higher score *)
C21_LowerScoreReturned ==
    /\ pc = "extracted" /\ ~HasMarker(text)
    /\ out.stage_used = "QUOTED"
    /\ \E k \in 1..Len(AcceptedQuoted(strip(text))) :
           CandidateScore(AcceptedQuoted(strip(text))[k]) > CandidateScore(out.extracted_text)

(* C22 as stated: a response without a marker that holds several quoted
   phrases gives the first of them, in the order they stand in the
   response, that is a likely idiom. *)
C22_FirstAppearingQuoteReturned ==
    (pc = "extracted" /\ ~HasMarker(text) /\ AcceptedSpans(strip(text)) # {}) =>
        out.extracted_text = clean_extracted_idiom(FirstAppearing(strip(text)).phrase)

(* a phrase in double quotation marks was returned although an accepted
   phrase in other marks stands before it in the response, and that
   earlier phrase is also the one select_best_idiom_candidate chooses *)
C22_LaterDoubleQuoteReturned ==
    /\ pc = "extracted" /\ ~HasMarker(text)
    /\ Cardinality(AcceptedSpans(strip(text))) >= 2
    /\ FirstVisited(strip(text)).kind = 1
    /\ FirstAppearing(strip(text)).start < FirstVisited(strip(text)).start
    /\ out = Outcome(clean_extracted_idiom(FirstVisited(strip(text)).phrase), "QUOTED")
    /\ select_best_idiom_candidate(AcceptedQuoted(strip(text))) =
           clean_extracted_idiom(FirstAppearing(strip(text)).phrase)
    /\ out.extracted_text # clean_extracted_idiom(FirstAppearing(strip(text)).phrase)

----------------------------------------------------------------------------
(* Properties of the last return statement, under SpecFallback *)

(* t holds a capital letter *)
HasUpper(t) == \E k \in 1..Len(t) : t[k] \in DOMAIN LowerOf

(* C23: when no pattern accepts a candidate, extract_idiom returns the
   response in small letters and cut to a bounded length, the 50 characters
   of the script's extract_idiom: the result holds no capital letter and is
   never longer than the bound, however long the response is. *)
C23_FallbackLowerAndBounded ==
    (pc = "extracted" /\ out.stage_used = "FALLBACK_RAW") =>
        /\ ~HasUpper(out.extracted_text)
        /\ Len(out.extracted_text) <= FallbackChars

(* the last return statement gave back a response of more than MaxChars
   characters at its full length, capital letters included *)
C23_FallbackKeptWhole ==
    /\ pc = "extracted" /\ out.stage_used = "FALLBACK_RAW"
    /\ HasUpper(out.extracted_text)
    /\ Len(out.extracted_text) > MaxChars
    /\ out.extracted_text = strip(text)

----------------------------------------------------------------------------
(* Properties of is_likely_idiom and is_description_text, under SpecClassify *)

(* C12: is_likely_idiom rejects every answer of a single word that is
   shorter than 8 characters. *)
C12_ShortSingleWordRejected ==
    (pc = "judged" /\ WordCount(text) = 1 /\ Len(strip(text)) < 8) => out = FALSE

(* a single word of fewer than 8 characters was accepted *)
C12_ShortSingleWordAccepted ==
    /\ pc = "judged" /\ WordCount(text) = 1 /\ Len(strip(text)) < 8
    /\ out = TRUE

(* one of the grounds of C13 to reject a text; the lengths are those of the
   trimmed text *)
Rejectable(t) ==
    \/ t = <<>>
    \/ Len(strip(t)) < 3
    \/ Len(strip(t)) > 100
    \/ WordCount(t) < 1 \/ WordCount(t) > 10
    \/ is_description_text(t)

(* C13: is_likely_idiom is false for every text that is empty, shorter than 3
   characters after trimming, longer than 100 characters, of a word count
   outside 1..10, or a description for is_description_text, and true for
   every text of two or more words with none of these. *)
C13_LikelyIdiomBounds ==
    pc = "judged" =>
        /\ Rejectable(text) => out = FALSE
        /\ (~Rejectable(text) /\ WordCount(text) >= 2) => out = TRUE

(* a text of at most 10 words that is no description was rejected for its
   length alone *)
C13_TooLongRejected ==
    /\ pc = "judged" /\ out = FALSE
    /\ Len(strip(text)) > 100 /\ WordCount(text) >= 2 /\ WordCount(text) <= 10
    /\ ~is_description_text(text)

(* the text is one word that holds a capital letter and no small one *)
SingleAllCapsWord(t) ==
    /\ WordCount(t) = 1
    /\ \E i \in 1..Len(t) : t[i] \in DOMAIN LowerOf
    /\ \A i \in 1..Len(t) : t[i] \notin LowerLetters

(* C14: is_description_text is true exactly when the text is empty, holds one
   of the description indicators in any case, or is a single word in
   capitals. *)
C14_DescriptionExactly ==
    pc = "described" =>
        out = (\/ text = <<>>
               \/ \E k \in 1..Len(description_indicators) :
                      contains(lower(text), description_indicators[k])
               \/ SingleAllCapsWord(text))

(* a single word in capitals was not taken for a description *)
C14_CapitalsNotDescription ==
    /\ pc = "described" /\ SingleAllCapsWord(text)
    /\ out = FALSE

----------------------------------------------------------------------------
(* Properties of select_best_idiom_candidate, under SpecSelect *)

(* candidate k has the highest score of the list and no earlier candidate
   has that score *)
FirstOfHighest(cs, k) ==
    /\ \A j \in 1..Len(cs) : CandidateScore(cs[j]) <= CandidateScore(cs[k])
    /\ \A j \in 1..(k - 1) : CandidateScore(cs[j]) < CandidateScore(cs[k])

(* C15: select_best_idiom_candidate returns the only candidate of a list of
   one, and of a longer list the candidate of the highest score that comes
   first in the list. *)
C15_FirstOfHighestScore ==
    pc = "selected" =>
        /\ Len(candidate_list) = 1 => out = candidate_list[1]
        /\ Len(candidate_list) >= 2 =>
               \E k \in 1..Len(candidate_list) :
                   /\ FirstOfHighest(candidate_list, k)
                   /\ out = candidate_list[k]

(* two different candidates share the highest score and the earlier one
   was returned *)
C15_TieKeptFirst ==
    /\ pc = "selected"
    /\ \E k, j \in 1..Len(candidate_list) :
           /\ k < j /\ FirstOfHighest(candidate_list, k)
           /\ CandidateScore(candidate_list[j]) = CandidateScore(candidate_list[k])
           /\ candidate_list[j] # candidate_list[k]
           /\ out = candidate_list[k]

(* one of the words of the candidate, in lower case, is an article *)
HasArticleWord(c) == \E i \in 1..Len(split(lower(c))) : split(lower(c))[i] \in Range(Articles)

(* the score of the rubric of C16 *)
RubricScore(c) ==
    (IF 3 <= WordCount(c) /\ WordCount(c) <= 6 THEN 10
     ELSE IF WordCount(c) <= 8 THEN 5 ELSE 0)
    + (IF ~is_description_text(c) THEN 5 ELSE 0)
    + (IF HasArticleWord(c) THEN 2 ELSE 0)

(* C16: the score of every candidate is 10 for 3 to 6 words, else 5 for at
   most 8 words, plus 5 when it is no description, plus 2 only when one of
   its words is "a", "an" or "the". *)
C16_ScoreIsRubric ==
    pc = "selected" =>
        \A k \in 1..Len(candidate_list) :
            CandidateScore(candidate_list[k]) = RubricScore(candidate_list[k])

(* a candidate without an article word was scored above the rubric and
   returned in place of the candidate the rubric puts first *)
C16_BonusWithoutArticle ==
    /\ pc = "selected" /\ Len(candidate_list) >= 2
    /\ ~HasArticleWord(out)
    /\ CandidateScore(out) = RubricScore(out) + 2
    /\ \E k \in 1..Len(candidate_list) :
           /\ \A j \in 1..Len(candidate_list) : RubricScore(candidate_list[j]) <= RubricScore(candidate_list[k])
           /\ \A j \in 1..(k - 1) : RubricScore(candidate_list[j]) < RubricScore(candidate_list[k])
           /\ out # candidate_list[k]

----------------------------------------------------------------------------
(* Properties of the scenarios, under SpecScenario *)

(* the response holds one marker, around the truth of the sample, and the
   truth is a likely idiom *)
SingleMarkerAroundTruth ==
    /\ BraceSearch(text) = <<ground_truth>>
    /\ Cardinality({i \in 1..Len(text) : MatchAt(text, i, OpenBraces)}) = 1
    /\ is_likely_idiom(ground_truth)

(* C18: for every response with a single marker whose content X is a likely
   idiom, extract_idiom returns X, and the sample is an exact match against
   the truth X. *)
C18_MarkerContentReturned ==
    SingleMarkerAroundTruth =>
        /\ pc = "extracted" => out.extracted_text = ground_truth
        /\ (pc = "evaluated" /\ use_extraction) => metrics.exact_matches = 1

(* C18 as the code has it: extract_idiom returns the cleaned content of the
   marker when that is a likely idiom, hence X itself, with an exact match,
   when cleaning leaves X as it is. *)
C18_CleanedMarkerContentReturned ==
    SingleMarkerAroundTruth =>
        /\ (pc = "extracted" /\ is_likely_idiom(clean_extracted_idiom(strip(ground_truth)))) =>
               out = Outcome(clean_extracted_idiom(strip(ground_truth)), "BRACKET_MARKER")
        /\ (pc = "extracted" /\ clean_extracted_idiom(strip(ground_truth)) = ground_truth) =>
               out.extracted_text = ground_truth
        /\ (pc = "evaluated" /\ use_extraction) =>
               (metrics.exact_matches = 1) =
                   (normalize_idiom(extract_idiom(text)) = normalize_idiom(ground_truth))
        /\ (pc = "evaluated" /\ use_extraction
                /\ clean_extracted_idiom(strip(ground_truth)) = ground_truth) =>
               metrics.exact_matches = 1

(* a marker behind other text that holds a quoted phrase gave its content
   back unchanged *)
C18_MarkerReturnedAmidText ==
    /\ SingleMarkerAroundTruth /\ pc = "extracted"
    /\ Len(text) > Len(ground_truth) + 6
    /\ HasQuoted(text)
    /\ out = Outcome(ground_truth, "BRACKET_MARKER")

(* C19: for the response 'This rebus represents spill the beans, so spill
   beans' with the truth "spill the beans" the keyword-intro stage returns
   "spill the beans", and the sample is an exact match. *)
C19_FullerPhraseSelected ==
    (text = SpillRaw /\ ground_truth = SpillTruth) =>
        /\ pc = "extracted" => out = Outcome(SpillTruth, "KEYWORD_INTRO")
        /\ (pc = "evaluated" /\ use_extraction) => metrics.exact_matches = 1

(* the keyword-intro stage returned the whole rest of the sentence, and the
   sample was no exact match *)
C19_RestOfSentenceReturned ==
    /\ text = SpillRaw /\ ground_truth = SpillTruth
    /\ \/ /\ pc = "extracted" /\ out.stage_used = "KEYWORD_INTRO"
          /\ Len(out.extracted_text) > Len(SpillTruth)
       \/ /\ pc = "evaluated" /\ use_extraction /\ metrics.exact_matches = 0

----------------------------------------------------------------------------
(* Properties of the script's loop over the samples, under SpecScript *)

(* the normalized ground truth and the normalized extracted prediction of
   the sample the loop has just read *)
LastTruth == script_normalize_idiom(results[sample_index].ground_truth)

LastPrediction == script_normalize_idiom(script_extract_idiom(results[sample_index].prediction))

(* the loop has read a sample *)
SampleRead == pc \in {"samples", "estimated"} /\ sample_index >= 1

(* C17: partial_match of a sample is true exactly when the normalized
   ground truth is a substring of the normalized extracted prediction or
   the other way round; every exact match is a partial match, and the count
   of partial matches is never below the count of exact matches. *)
C17_PartialIsSubstringEitherWay ==
    SampleRead =>
        /\ out.partial_match = (\/ contains(LastPrediction, LastTruth)
                                \/ contains(LastTruth, LastPrediction))
        /\ out.exact_match = (LastTruth = LastPrediction)
        /\ out.exact_match => out.partial_match
        /\ partial_total >= exact_total
        /\ partial_total <= sample_index

(* after an exact match the loop read a sample whose prediction is a part
   of the truth: a partial match that is no exact match *)
C17_PartialWithoutExact ==
    /\ SampleRead /\ sample_index = 2
    /\ out.partial_match /\ ~out.exact_match
    /\ contains(LastTruth, LastPrediction) /\ ~contains(LastPrediction, LastTruth)
    /\ LastPrediction # <<>>
    /\ exact_total = 1 /\ partial_total = 2

(* the token sets of the only sample of the file share no token and are
   not both empty *)
NoCommonToken ==
    /\ Len(results) = 1 /\ WellFormed(results[1])
    /\ tokenize_for_f1(results[1].ground_truth) \cap tokenize_for_f1(extract_idiom(results[1].prediction)) = {}
    /\ tokenize_for_f1(results[1].ground_truth) # {}

(* C20: for the response 'completely unrelated text' with the truth "kick
   the bucket" exact_match is false, partial_match is false and the token F1
   is below 1.0; the token F1 is 0.0, with no exact match, whenever the
   token sets of prediction and truth are disjoint. *)
C20_UnrelatedIsCompleteMiss ==
    /\ results = <<UnrelatedSample>> =>
           /\ SampleRead => (~out.exact_match /\ ~out.partial_match)
           /\ pc = "estimated" =>
                  /\ exact_total = 0 /\ partial_total = 0
                  /\ analysis.estimated_partial = FloatZero
           /\ pc = "evaluated" =>
                  /\ metrics.exact_matches = 0
                  /\ ~FloatLeq(FloatOne, metrics.macro_f1)
    /\ (NoCommonToken /\ pc = "evaluated") =>
           /\ metrics.exact_matches = 0
           /\ metrics.macro_f1 = FloatZero

(* evaluate gave the unrelated response a token F1 of 0.0 *)
C20_UnrelatedScoredZero ==
    /\ results = <<UnrelatedSample>> /\ pc = "evaluated"
    /\ metrics.exact_matches = 0 /\ metrics.macro_f1 = FloatZero
    /\ calculate_token_f1(results[1].ground_truth, results[1].prediction) = FloatZero

----------------------------------------------------------------------------
(* Properties of normalize_idiom, under SpecNormalize *)

(* C1: normalize_idiom is idempotent: normalizing a normalized phrase gives
   the same phrase. *)
C1_NormalizeIdempotent == pc = "twice" => again = out

(* a phrase whose normal form is not a fixed point *)
C1_SecondPassChanges == pc = "twice" /\ again # out

----------------------------------------------------------------------------
(* Properties of calculate_token_f1, under SpecF1 *)

LeadingArticles == { <<"a">>, <<"a", "n">>, <<"t", "h", "e">> }

(* one phrase is the other behind an article and a space *)
DifferByLeadingArticle(x, y) ==
    \E article \in LeadingArticles :
        x = article \o <<" ">> \o y \/ y = article \o <<" ">> \o x

(* C4: the score is the set-based token F1 of the normalized phrases: 1.0
   when both token sets are empty, 0.0 when one is, otherwise 2PR/(P+R) with
   P = |common|/|predicted| and R = |common|/|truth| (0.0 when P+R = 0);
   identical phrases, and phrases that differ only by a leading article,
   score 1.0. *)
C4_TokenF1 ==
    pc = "scored" =>
        LET truth_tokens == Range(split(normalize_idiom(ground_truth)))
            pred_tokens == Range(split(normalize_idiom(prediction)))
            common == Cardinality(truth_tokens \cap pred_tokens)
            P == FloatDiv(FloatOfInt(common), FloatOfInt(Cardinality(pred_tokens)))
            R == FloatDiv(FloatOfInt(common), FloatOfInt(Cardinality(truth_tokens)))
        IN  /\ f1 = IF truth_tokens = {} /\ pred_tokens = {} THEN FloatOne
                    ELSE IF truth_tokens = {} \/ pred_tokens = {} THEN FloatZero
                    ELSE IF common = 0 THEN FloatZero
                    ELSE FloatDiv(FloatMul(FloatOfInt(2), FloatMul(P, R)), FloatAdd(P, R))
            /\ ground_truth = prediction => f1 = FloatOne
            /\ DifferByLeadingArticle(ground_truth, prediction) => f1 = FloatOne

(* two phrases that differ only by a leading article score less than 1.0 *)
C4_ArticleCostsScore ==
    /\ pc = "scored"
    /\ DifferByLeadingArticle(ground_truth, prediction)
    /\ f1 # FloatOne

----------------------------------------------------------------------------
(* Properties of evaluate, under SpecEvaluate *)

(* a float of [0, 1] *)
InUnit(x) == x # NaN /\ FloatLeq(FloatZero, x) /\ FloatLeq(x, FloatOne)

(* the records of a batch that carry both fields *)
WellFormedOnly(batch) == SelectSeq(batch, WellFormed)

(* the batch in the order p, a permutation of its indices *)
Reordered(batch, p) == [i \in 1..Len(batch) |-> batch[p[i]]]

(* C5: for every batch the metrics hold total_samples = the length of the
   batch, every rate and every per-sample F1 in [0, 1], and macro_f1 the mean
   of the per-sample F1 scores. *)
C5_MetricsInvariants ==
    pc = "evaluated" =>
        /\ metrics.total_samples = Len(results)
        /\ InUnit(metrics.exact_match_accuracy)
        /\ InUnit(metrics.raw_accuracy)
        /\ use_extraction => InUnit(metrics.raw_exact_match_accuracy)
        /\ use_f1 =>
               /\ InUnit(metrics.macro_f1)
               /\ \A i \in 1..Len(results) :
                      InUnit(token_f1s(results, use_extraction)[i])
               /\ Len(results) > 0 =>
                      metrics.macro_f1 =
                          FloatDiv(FloatSum(token_f1s(results, use_extraction)),
                                   FloatOfInt(Len(results)))

(* the metrics of a batch hold a rate that is no number of [0, 1] *)
C5_RateOutsideUnit ==
    /\ pc = "evaluated"
    /\ metrics.total_samples = Len(results)
    /\ ~InUnit(metrics.raw_accuracy)

(* C6: evaluate of the empty batch raises nothing and returns metrics whose
   rates are all 0: exact-match accuracy, raw accuracy, raw exact-match
   accuracy and macro F1. *)
C6_EmptyBatchRatesZero ==
    (pc # "start" /\ results = <<>>) =>
        /\ ~IsRaised(metrics)
        /\ metrics.exact_match_accuracy = FloatZero
        /\ metrics.raw_accuracy = FloatZero
        /\ use_extraction => metrics.raw_exact_match_accuracy = FloatZero
        /\ use_f1 => metrics.macro_f1 = FloatZero

(* evaluate of the empty batch ended with a raw accuracy that is not 0, or
   raised *)
C6_EmptyBatchNotZero ==
    /\ pc # "start" /\ results = <<>>
    /\ IsRaised(metrics) \/ metrics.raw_accuracy = NaN

(* C7: a record without ground_truth or prediction does not abort evaluate:
   the record is skipped and the metrics are those of the well-formed records
   of the batch. *)
C7_MalformedRecordSkipped ==
    (pc # "start" /\ \E i \in 1..Len(results) : ~WellFormed(results[i])) =>
        /\ ~IsRaised(metrics)
        /\ LET rest == evaluate(WellFormedOnly(results), use_f1, use_extraction, NaN)
           IN  /\ metrics.exact_matches = rest.exact_matches
               /\ metrics.exact_match_accuracy = rest.exact_match_accuracy

(* evaluate raised KeyError on a batch that holds well-formed records too *)
C7_MalformedRecordAborts ==
    /\ pc = "raised"
    /\ \E i \in 1..Len(results) : ~WellFormed(results[i])
    /\ \E i \in 1..Len(results) : WellFormed(results[i])
    /\ metrics = Raised("KeyError")

(* the aggregate metrics that do not name single samples *)
Aggregates(m) ==
    [k \in DOMAIN m \cap {"total_samples", "exact_matches", "exact_match_accuracy",
                          "raw_exact_matches", "raw_exact_match_accuracy", "macro_f1"}
        |-> m[k]]

(* C9: the aggregate metrics do not depend on the order of the batch: every
   permutation of the batch gives the same total_samples, exact-match count
   and rate, raw exact-match count and rate, and macro F1. *)
C9_OrderIndependent ==
    pc = "evaluated" =>
        \A p \in Permutations(1..Len(results)) :
            Aggregates(evaluate(Reordered(results, p), use_f1, use_extraction, NaN))
                = Aggregates(metrics)

(* a batch and a permutation of it with two different macro F1 *)
C9_OrderChangesMacroF1 ==
    /\ pc = "evaluated" /\ use_f1
    /\ \E p \in Permutations(1..Len(results)) :
           evaluate(Reordered(results, p), use_f1, use_extraction, NaN).macro_f1
               # metrics.macro_f1

----------------------------------------------------------------------------
(* Properties of debug_results.py, under SpecDebug *)

(* C8: for each sample extraction_helped holds exactly when the normalized
   extracted prediction equals the normalized ground truth and the normalized
   raw prediction does not, extraction_hurt exactly in the inverse case, and
   the reported helped and hurt counts are the numbers of samples with each
   flag. *)
C8_ImpactTallies ==
    LET Helped(r) ==
            /\ normalize_idiom(extract_idiom(r.prediction)) = normalize_idiom(r.ground_truth)
            /\ normalize_idiom(r.prediction) # normalize_idiom(r.ground_truth)
        Hurt(r) ==
            /\ normalize_idiom(r.prediction) = normalize_idiom(r.ground_truth)
            /\ normalize_idiom(extract_idiom(r.prediction)) # normalize_idiom(r.ground_truth)
    IN  /\ \A i \in 1..Len(debug_results) :
               /\ debug_results[i].extraction_helped = Helped(results[i])
               /\ debug_results[i].extraction_hurt = Hurt(results[i])
        /\ pc = "analyzed" =>
               /\ analysis.extraction_helped_count =
                      Cardinality({i \in 1..Len(results) : Helped(results[i])})
               /\ analysis.extraction_hurt_count =
                      Cardinality({i \in 1..Len(results) : Hurt(results[i])})

(* a batch of two samples, one helped and one hurt, analyzed *)
C8_OneHelpedOneHurt ==
    /\ pc = "analyzed" /\ Len(results) = 2
    /\ debug_results[1].extraction_helped /\ debug_results[2].extraction_hurt
    /\ analysis.extraction_helped_count = 1
    /\ analysis.extraction_hurt_count = 1

----------------------------------------------------------------------------
(* Properties of normalize_idiom, under SpecCanonical *)

(* t holds two whitespace characters side by side *)
HasSpaceRun(t) == \E k \in 1..(Len(t) - 1) : IsSpace(t[k]) /\ IsSpace(t[k + 1])

(* C24: every result of normalize_idiom is in canonical form: no capital
   letter, no whitespace at either end, no two whitespace characters side
   by side, and no dash or underscore, each run of dashes and underscores
   having become one space. *)
C24_NormalizedIsCanonical ==
    pc \in {"once", "twice"} =>
        /\ ~HasUpper(out)
        /\ out = strip(out)
        /\ ~HasSpaceRun(out)
        /\ \A k \in 1..Len(out) : out[k] \notin {"-", "_"}

(* a run of two dashes between two words left two spaces in the result *)
C24_DashRunLeftTwoSpaces ==
    /\ pc = "once"
    /\ text = <<"x", "-", "-", "y">>
    /\ out = <<"x", " ", " ", "y">>

(* the phrase before the leading article is looked for: normalize_idiom *)
(* without its last substitution                                        *)
BeforeArticle(idiom) ==
    IF idiom = <<>> THEN <<>>
    ELSE SubSeparator(SubSeparator(SubWord(SubWord(SubWord(
             StripPunct(CollapseSpace(strip(lower(idiom)))),
             W_and, R_amp), W_u, R_you), W_r, R_are), "-"), "_")

(* the articles with which t begins, a space behind them *)
ArticleAhead(t) ==
    {a \in LeadingArticles : Len(t) > Len(a) /\ startswith(t, a) /\ t[Len(a) + 1] = " "}

(* the phrase behind the leading article of the lower-cased text *)
BehindArticle(t) ==
    LET low == strip(lower(t))
        a == CHOOSE x \in ArticleAhead(low) : TRUE
    IN  strip(From(low, Len(a) + 1))

(* normalize_idiom strips no article from p *)
KeepsItsStart(p) == normalize_idiom(p) = strip(BeforeArticle(p))

(* C25 as stated: when the lower-cased text begins with "a ", "an " or
   "the ", that one article is removed and nothing more, so a second article
   behind it is kept, and the phrase normalizes to the same string with and
   without the leading article. *)
C25_OneArticleMakesNoDifference ==
    (pc = "once" /\ ArticleAhead(strip(lower(text))) # {}) =>
        /\ \A a \in ArticleAhead(strip(lower(text))) :
               out = strip(From(BeforeArticle(text), Len(a) + 1))
        /\ out = normalize_idiom(BehindArticle(text))

(* C25 amended: when the lower-cased text begins with "a ", "an " or "the ",
   that one article is removed and nothing more, so a second article behind
   it is kept; the phrase behind the article normalizes to the same string
   as the whole text when it begins with a letter or a digit and
   normalize_idiom strips no article from it. *)
C25_OneArticleStripped ==
    (pc = "once" /\ ArticleAhead(strip(lower(text))) # {}) =>
        /\ \A a \in ArticleAhead(strip(lower(text))) :
               out = strip(From(BeforeArticle(text), Len(a) + 1))
        /\ ArticleAhead(BehindArticle(text)) # {} =>
               \E b \in ArticleAhead(BehindArticle(text)) : startswith(out, b)
        /\ (IsWord(BehindArticle(text)[1]) /\ KeepsItsStart(BehindArticle(text))) =>
               out = normalize_idiom(BehindArticle(text))

(* a second article was kept, so the text and the phrase behind its first
   article have different normal forms *)
C25_SecondArticleKept ==
    /\ pc = "once"
    /\ text = <<"T", "h", "e", " ", "T", "h", "e", " ", "c", "a", "t">>
    /\ out = <<"t", "h", "e", " ", "c", "a", "t">>
    /\ normalize_idiom(BehindArticle(text)) = <<"c", "a", "t">>

----------------------------------------------------------------------------
(* Properties of clean_extracted_idiom, under SpecClean *)

(* the phrases of the first three prefix patterns *)
LeadingFillers == Range(PrefixIdiomIs) \cup Range(PrefixIThink) \cup Range(PrefixTheAnswerIs)

(* t begins with a leading filler, in any case of its letters *)
BeginsWithFiller(t) == \E p \in LeadingFillers : MatchAtCI(t, 1, p)

(* t ends with a trailing filler word or a terminal punctuation mark *)
EndsWithFiller(t) ==
    \E p \in Range(SuffixIdiom) \cup Range(SuffixPunct) :
        MatchAtCI(t, Len(t) - Len(p) + 1, p)

(* t is wrapped in two double or in two single quotation marks *)
Wrapped(t) ==
    /\ Len(t) >= 2
    /\ \E q \in {"\"", "'"} : t[1] = q /\ t[Len(t)] = q

(* C26: for every input the result of clean_extracted_idiom begins with no
   leading filler phrase, also when several fillers stood one behind the
   other as in 'I think this is ...', ends with no trailing filler word and
   no terminal punctuation mark, and has lost one layer of quotation marks
   when they wrapped the whole input. *)
C26_CleanedHasNoFiller ==
    pc = "cleaned" =>
        /\ ~BeginsWithFiller(out)
        /\ ~EndsWithFiller(out)
        /\ Wrapped(strip(text)) => contains(Inner(strip(text), 1), out)

(* the second of two stacked fillers stayed at the start of the result *)
C26_SecondFillerLeft ==
    /\ pc = "cleaned"
    /\ text = StackedFillers
    /\ out = <<"t", "h", "i", "s", " ", "i", "s", " ", "\"", "b", "r", "e", "a", "k", " ", "t", "h", "e", " ", "i", "c", "e", "\"">>

----------------------------------------------------------------------------
(* Properties of the extraction analysis, under SpecImpact *)

(* float(n) of an int of either sign *)
SignedFloatOfInt(n) == IF n < 0 THEN Negate(FloatOfInt(-n)) ELSE FloatOfInt(n)

(* the tallies of the samples debugged so far *)
HelpedMinusHurt == CountFlag(debug_results, "extraction_helped") - CountFlag(debug_results, "extraction_hurt")

ExtractedMinusRaw == CountFlag(debug_results, "extracted_match") - CountFlag(debug_results, "raw_match")

(* no sample is both helped and hurt, and the two differences agree *)
TalliesAgree ==
    /\ \A i \in 1..Len(debug_results) :
           ~(debug_results[i].extraction_helped /\ debug_results[i].extraction_hurt)
    /\ HelpedMinusHurt = ExtractedMinusRaw
    /\ pc = "analyzed" =>
           /\ analysis.extraction_helped_count - analysis.extraction_hurt_count = ExtractedMinusRaw
           /\ analysis.net_improvement = ExtractedMinusRaw

(* improvement_rate * total_samples, as the float product *)
RateTimesTotal == FloatMul(analysis.improvement_rate, FloatOfInt(analysis.total_samples))

(* C27: extraction_helped and extraction_hurt are never both true for a
   sample, for every batch helped_count - hurt_count equals
   extracted_correct - raw_correct, and net_improvement equals
   improvement_rate times total_samples. *)
C27_NetIsRateTimesTotal ==
    /\ TalliesAgree
    /\ pc = "analyzed" => FloatEq(RateTimesTotal, SignedFloatOfInt(analysis.net_improvement))

(* C27, amended: extraction_helped and extraction_hurt are never both true
   for a sample, for every batch helped_count - hurt_count equals
   extracted_correct - raw_correct, which is net_improvement, and
   improvement_rate is the float quotient of net_improvement by
   total_samples, 0 for the empty batch. *)
C27_RateIsNetOverTotal ==
    /\ TalliesAgree
    /\ pc = "analyzed" =>
           FloatEq(analysis.improvement_rate,
                   IF analysis.total_samples > 0
                   THEN FloatDiv(SignedFloatOfInt(analysis.net_improvement),
                                 FloatOfInt(analysis.total_samples))
                   ELSE FloatZero)

(* 15 samples helped and none hurt among 22, one of the others right both *)
(* ways and neither helped nor hurt: the rate times 22 is not 15         *)
C27_ProductRoundedAway ==
    /\ pc = "analyzed"
    /\ analysis.total_samples = 22
    /\ analysis.net_improvement = 15
    /\ analysis.extraction_helped_count = 15
    /\ \E i \in 1..Len(debug_results) :
           /\ debug_results[i].raw_match /\ debug_results[i].extracted_match
           /\ ~debug_results[i].extraction_helped /\ ~debug_results[i].extraction_hurt
    /\ ~FloatEq(RateTimesTotal, FloatOfInt(15))

----------------------------------------------------------------------------
(* Properties of the raw baseline of evaluate, under SpecEvaluate *)

(* evaluate(results, use_extraction=False) of a batch that was evaluated *)
(* without an error, its macro_f1 left aside                            *)
WithoutExtraction == evaluate(results, FALSE, FALSE, NaN)

(* the two fields of the raw baseline are those of the run without *)
(* extraction                                                      *)
SameBaseline(m, run) ==
    /\ m.raw_exact_matches = run.exact_matches
    /\ m.raw_exact_match_accuracy = run.exact_match_accuracy

(* with extraction the raw baseline is the run without extraction, and *)
(* extraction_improvement is the difference of the two accuracies      *)
BaselineAgrees ==
    (pc = "evaluated" /\ use_extraction) =>
        /\ SameBaseline(metrics, WithoutExtraction)
        /\ metrics.extraction_improvement =
               FloatSub(metrics.exact_match_accuracy, metrics.raw_exact_match_accuracy)

(* the keys of the returned dict whose names begin with raw_ *)
RawNamedFields == {"raw_accuracy", "raw_exact_matches", "raw_exact_match_accuracy"}

(* the keys that are set under if use_extraction *)
BaselineFields == {"raw_exact_matches", "raw_exact_match_accuracy", "extraction_improvement"}

(* C28: for every batch evaluate(batch, use_extraction=True)["raw_exact_matches"]
   equals evaluate(batch, use_extraction=False)["exact_matches"], and
   extraction_improvement equals exact_match_accuracy minus
   raw_exact_match_accuracy; with extraction disabled no field named raw_*
   and no extraction_improvement field is emitted. *)
C28_NoRawFieldWithoutExtraction ==
    /\ BaselineAgrees
    /\ (pc = "evaluated" /\ ~use_extraction) =>
           DOMAIN metrics \cap (RawNamedFields \cup {"extraction_improvement"}) = {}

(* C28, amended: the raw baseline agrees with the run without extraction in
   raw_exact_matches and in raw_exact_match_accuracy, extraction_improvement
   is exact_match_accuracy minus raw_exact_match_accuracy, and with
   extraction disabled the fields raw_exact_matches, raw_exact_match_accuracy
   and extraction_improvement are not emitted, while raw_accuracy is emitted
   in both modes. *)
C28_BaselineOnlyWithExtraction ==
    /\ BaselineAgrees
    /\ (pc = "evaluated" /\ use_extraction) =>
           BaselineFields \subseteq DOMAIN metrics
    /\ (pc = "evaluated" /\ ~use_extraction) =>
           /\ DOMAIN metrics \cap BaselineFields = {}
           /\ "raw_accuracy" \in DOMAIN metrics
    /\ pc = "evaluated" => "raw_accuracy" \in DOMAIN metrics

(* a batch in which extraction changed the count: the baseline is the *)
(* count of the run without extraction, not the count that is reported *)
C28_BaselineDiffersFromScore ==
    /\ pc = "evaluated" /\ use_extraction
    /\ Len(results) = 2
    /\ SameBaseline(metrics, WithoutExtraction)
    /\ metrics.raw_exact_matches # metrics.exact_matches
    /\ ~IsZero(metrics.extraction_improvement)

----------------------------------------------------------------------------
(* Properties of extract_idiom on clean answers, under SpecIdentity *)

(* the phrases that the three intro patterns look for *)
IntroKeywords == Range(IntroIdiomIs) \cup Range(IntroThisIs) \cup Range(IntroRepresents)

(* a single line with no marker, no quotation mark and no backtick, that *)
(* is_likely_idiom accepts and clean_extracted_idiom leaves as it is     *)
PlainAnswer(p) ==
    /\ \A k \in 1..Len(p) : p[k] # "\n" /\ p[k] \notin Range(QuoteChars)
    /\ ~contains(p, <<"{", "{", "{">>)
    /\ is_likely_idiom(p)
    /\ clean_extracted_idiom(p) = p

(* extraction returned the prediction as it was, so a raw exact match *)
(* stays one                                                          *)
ReturnedUnchanged ==
    /\ out.extracted_text = text
    /\ normalize_idiom(out.extracted_text) = normalize_idiom(text)

(* C29: for every single-line prediction that contains no {{{...}}} marker,
   no quote or backtick character and none of the intro keywords "idiom is",
   "answer is", "solution is", "it is", "this is", "represents", "means" as
   they are written, that passes is_likely_idiom and is left unchanged by
   clean_extracted_idiom, extract_idiom returns the prediction unchanged. *)
C29_CleanAnswerUnchanged ==
    (/\ pc = "extracted"
     /\ PlainAnswer(text)
     /\ \A w \in IntroKeywords : ~contains(text, w)) => ReturnedUnchanged

(* C29, amended: for every single-line prediction that contains no
   {{{...}}} marker, no quote or backtick character and no intro keyword in
   any case of its letters, that passes is_likely_idiom and is left unchanged
   by clean_extracted_idiom, extract_idiom returns the prediction unchanged,
   from its standalone-line stage. *)
C29_CleanAnswerUnchangedAnyCase ==
    (/\ pc = "extracted"
     /\ PlainAnswer(text)
     /\ \A w \in IntroKeywords : ~contains(lower(text), w)) =>
        /\ ReturnedUnchanged
        /\ out.stage_used = "STANDALONE_LINE"

(* 'Time v.s piece', a plain answer with a capital letter and a period *)
(* inside, came back whole from the standalone-line stage              *)
C29_PlainAnswerKept ==
    /\ pc = "extracted"
    /\ text = PlainWithPeriod
    /\ PlainAnswer(text)
    /\ \A w \in IntroKeywords : ~contains(lower(text), w)
    /\ out.stage_used = "STANDALONE_LINE"
    /\ out.extracted_text = PlainWithPeriod

----------------------------------------------------------------------------
(* Properties of BaseClient.generate, under FairClient *)

(* the attempts made so far that failed with an Exception *)
Failed(k) == IsRaised(calls[k]) /\ calls[k].raised \in Exceptions

(* at most max_retries attempts, each but the last one made a failure, *)
(* and after failed attempt k a wait of 2^(k-1) seconds                *)
AttemptsBounded ==
    /\ Len(calls) <= max_retries
    /\ attempt \in 1..max_retries
    /\ \A k \in 1..(Len(calls) - 1) : Failed(k)
    /\ Len(slept) < max_retries
    /\ \A k \in 1..Len(slept) : Failed(k) /\ slept[k] = 2 ^ (k - 1)
    /\ pc = "calling" => Len(calls) = attempt - 1 /\ Len(slept) = attempt - 1
    /\ pc = "sleeping" => Len(calls) = attempt /\ Len(slept) = attempt - 1 /\ Failed(attempt)

(* the call returned the response of its last attempt, the first that *)
(* did not fail                                                        *)
ReturnedFirstSuccess ==
    pc = "returned" =>
        /\ calls # <<>>
        /\ ~IsRaised(calls[Len(calls)])
        /\ out = calls[Len(calls)].returned
        /\ Len(slept) = Len(calls) - 1

(* the call raised the error of its last attempt; when that was an    *)
(* Exception it was the third attempt, with waits of 1 and 2 seconds *)
(* before it and none after it                                       *)
RaisedLastFailure ==
    pc = "raised" =>
        /\ calls # <<>>
        /\ IsRaised(calls[Len(calls)])
        /\ out = calls[Len(calls)]
        /\ Len(slept) = Len(calls) - 1
        /\ Failed(Len(calls)) => Len(calls) = max_retries /\ slept = <<1, 2>>

(* no attempt and no wait after the return or the raise *)
NothingAfterTheEnd ==
    pc \in {"returned", "raised"} => (calls' = calls /\ slept' = slept /\ out' = out)

(* C30: BaseClient.generate makes at most max_retries (3) attempts per
   request; it returns the response of the first successful attempt and
   makes no further attempt after it; between a failed attempt k < 3 and the
   next it waits 2^(k-1) seconds (1s, then 2s); after the third failure it
   re-raises that failure without waiting; every call ends in either a
   returned response or a raised error. *)
C30_RetriesBoundedAndCallEnds ==
    /\ [](AttemptsBounded /\ ReturnedFirstSuccess /\ RaisedLastFailure)
    /\ [][NothingAfterTheEnd]_vars
    /\ <>(pc \in {"returned", "raised"})

(* three attempts failed: waits of 1 and 2 seconds, the third error raised *)
C30_ThirdFailureRaised ==
    /\ pc = "raised"
    /\ Len(calls) = 3
    /\ \A k \in 1..3 : Failed(k)
    /\ slept = <<1, 2>>
    /\ out = calls[3]
    /\ calls[3] # calls[1]

====
